---- MODULE Spec2Model ----
(***************************************************************************)
(* ASID management subsystem: the bitmap ASID allocator                    *)
(* (ostd/src/mm/asid_allocation.rs) and the profiling counters             *)
(* (ostd/src/mm/asid_profiling.rs).                                        *)
(*                                                                         *)
(* A u64 bitmap word is the set of the positions of its 1 bits; a u32      *)
(* counter is the pair <<high half, low half>> of 16-bit halves, so that   *)
(* its wrap-around is kept; an Option<u16> is a record [some, val].        *)
(***************************************************************************)
EXTENDS Integers, Sequences, FiniteSets, TLC

\* ------------------------------------------------------------- bounds
\* The number of operations of one run.
MaxOps == 3
\* max_process_contexts the context-ID manager is created with.
MaxContexts == 3
\* Address spaces and threads (CPUs) of the binding layer.
MaxVmSpaces == 2
MaxThreads == 2
\* The number of operations of one run of the binding layer.
MaxVmOps == 3
\* The number of operations of one run of a single thread.
MaxOneOps == 4
\* Operations per behaviour of the system-call specification.
MaxSysOps == 4
\* Recording calls per behaviour of the per-ASID table specification.
MaxRecOps == 3
\* Concurrent callers, and the calls they start per behaviour.
MaxCallers == 2
MaxParOps == 3
MaxRaceOps == 3

\* ---------------------------------------------------- program constants
ASID_MIN == 1
\* Bits of one bitmap word (u64).
WordBits == 64
\* 2^16: the width of u16 (the generation, the halves of a u32).
U16Mod == 65536

\* PCID capability limit (12 bits).
PCID_CAP == 4096

\* The build configurations: ASID_CAP of x86_64 and of the two small pools.
CapConfigs == {4, 8, 4096}
\* Cycle counts a timed operation may measure, and timestamps rdtsc returns.
CycleSamples == {0, 7}

VARIABLES
    ASID_CAP,        \* arch::mm::ASID_CAP of the build
    ASID_MANAGER,    \* [bitmap, next, current_generation]
    ASID_STATS,      \* the counters and per_asid_stats
    last,            \* the last completed operation: [op, arg, res, report]
    live,            \* <<asid, generation>> of every ID allocate() returned and
                     \* deallocate() has not been given back, oldest first
    allocRun,        \* n when the run so far is n allocate() calls, else -1
    ops              \* operations completed

\* The context-ID (PCID) layer: kernel/src/arch/x86/mm/pcid.rs,
\* kernel/src/process/process_ctx_id.rs, kernel/src/vm/vm_space_pcid.rs.
VARIABLES
    cpu,                     \* [pcid, invpcid, pcide]: CPUID.1:ECX[17],
                             \* CPUID.7:EBX[10], CR4.PCIDE
    cr3,                     \* [addr, flags]: the page-table-base register
                             \* of the CPU the threads run on
    PROCESS_CTX_ID_MANAGER,  \* [id_allocator, max_process_contexts,
                             \*  pcid_states, hw_pcid_supported]
    VMSPACE_PCIDS,           \* per thread: the map VmSpace -> ProcessCtxId
    trace,                   \* what the last operation did to the pool and
                             \* to the TLB, in order
    dirty,                   \* IDs activated and not invalidated since
    held,                    \* IDs handed out by the manager, not released
    contexts,                \* ProcessContextManager::contexts: the IDs of
                             \* the live ProcessContext objects
    installed                \* the PCID the last set_cr3_with_pcid was given,
                             \* None when CR3 was last loaded without one

\* The system call: kernel/src/syscall/asid_profiling.rs.
VARIABLES
    sys                      \* the last sys_asid_profiling call: its
                             \* arguments, the writable length of the user
                             \* buffer, the writes it made and its result

\* Concurrent callers: where each one stands inside the call it is making.
VARIABLES
    pc,                      \* per caller: [op, id, step, flag], op "idle"
                             \* between calls
    locks                    \* the holder of each lock, 0 when free

asidVars == <<ASID_CAP, ASID_MANAGER, ASID_STATS, live, allocRun>>
sysVars == <<sys>>
parVars == <<pc, locks>>
pcidVars == <<cpu, cr3, PROCESS_CTX_ID_MANAGER, VMSPACE_PCIDS, trace, dirty,
              held, contexts, installed>>
vars == <<ASID_CAP, ASID_MANAGER, ASID_STATS, last, live, allocRun, ops,
          cpu, cr3, PROCESS_CTX_ID_MANAGER, VMSPACE_PCIDS, trace, dirty, held,
          contexts, installed, sys, pc, locks>>

\* ------------------------------------------------------------ helpers
Min(S) == CHOOSE x \in S : \A y \in S : x <= y

Some(v) == [some |-> TRUE, val |-> v]
None == [some |-> FALSE, val |-> 0]

U32Zero == <<0, 0>>
\* AtomicU32::fetch_add(1): wrapping.
U32Inc(x) ==
    IF x[2] + 1 < U16Mod THEN <<x[1], x[2] + 1>>
    ELSE <<(x[1] + 1) % U16Mod, 0>>
\* AtomicU32::fetch_sub(1): wrapping.
U32Dec(x) ==
    IF x[2] > 0 THEN <<x[1], x[2] - 1>>
    ELSE <<(x[1] + U16Mod - 1) % U16Mod, U16Mod - 1>>

ASID_FLUSH_REQUIRED == ASID_CAP

\* [u64; (ASID_CAP - ASID_MIN).div_ceil(64)]
BitmapLen == ((ASID_CAP - ASID_MIN) + WordBits - 1) \div WordBits
\* u64::MAX
FullWord == 0 .. (WordBits - 1)
\* u64::trailing_zeros: the position of the lowest 1 bit, 64 for the word 0.
trailing_zeros(word) == IF word = {} THEN WordBits ELSE Min(word)

\* ---------------------------------------------------------- AsidStats
AsidStats_new ==
    [ allocations_total |-> 0, deallocations_total |-> 0,
      allocation_failures |-> 0, generation_rollovers |-> 0,
      asid_reuse_count |-> 0, bitmap_searches |-> 0, map_searches |-> 0,
      tlb_single_address_flushes |-> 0, tlb_single_context_flushes |-> 0,
      tlb_all_context_flushes |-> 0, tlb_full_flushes |-> 0,
      context_switches |-> 0, context_switches_with_flush |-> 0,
      vmspace_activations |-> 0,
      allocation_time_total |-> 0, deallocation_time_total |-> 0,
      tlb_flush_time_total |-> 0, context_switch_time_total |-> 0,
      active_asids |-> U32Zero, current_generation |-> 0, pcid_enabled |-> 0,
      per_asid_stats |-> << >> ]

\* AsidUsageStats::default()
AsidUsageStats_default ==
    [ allocation_count |-> 0, activation_count |-> 0,
      last_used_timestamp |-> 0, total_active_time |-> 0, tlb_flushes |-> 0 ]

\* BTreeMap::entry(asid).or_default()
or_default(per, asid) ==
    IF asid \in DOMAIN per THEN per
    ELSE [a \in (DOMAIN per) \cup {asid} |->
            IF a = asid THEN AsidUsageStats_default ELSE per[a]]

record_allocation(st, asid, time_cycles, ts) ==
    LET per == or_default(st.per_asid_stats, asid)
    IN  [st EXCEPT !.allocations_total = @ + 1,
                   !.allocation_time_total = @ + time_cycles,
                   !.active_asids = U32Inc(@),
                   !.per_asid_stats =
                       [per EXCEPT ![asid].allocation_count = @ + 1,
                                   ![asid].last_used_timestamp = ts]]

record_deallocation(st, asid, time_cycles) ==
    [st EXCEPT !.deallocations_total = @ + 1,
               !.deallocation_time_total = @ + time_cycles,
               !.active_asids = U32Dec(@)]

record_allocation_failure(st) ==
    [st EXCEPT !.allocation_failures = @ + 1]

record_generation_rollover(st, new_generation) ==
    [st EXCEPT !.generation_rollovers = @ + 1,
               !.current_generation = new_generation]

record_bitmap_search(st) ==
    [st EXCEPT !.bitmap_searches = @ + 1]

record_map_search(st) ==
    [st EXCEPT !.map_searches = @ + 1]

record_asid_reuse(st, asid) ==
    [st EXCEPT !.asid_reuse_count = @ + 1]

\* op_type is a TlbOperationType; asid is an Option<u16>.
record_tlb_operation(st, op_type, asid, time_cycles) ==
    LET st1 == [st EXCEPT !.tlb_flush_time_total = @ + time_cycles]
        st2 == CASE op_type = "SingleAddress" ->
                      [st1 EXCEPT !.tlb_single_address_flushes = @ + 1]
                 [] op_type = "SingleContext" ->
                      [st1 EXCEPT !.tlb_single_context_flushes = @ + 1]
                 [] op_type = "AllContexts" ->
                      [st1 EXCEPT !.tlb_all_context_flushes = @ + 1]
                 [] op_type = "FullFlush" ->
                      [st1 EXCEPT !.tlb_full_flushes = @ + 1]
    IN  IF asid.some /\ asid.val \in DOMAIN st2.per_asid_stats
        THEN [st2 EXCEPT !.per_asid_stats[asid.val].tlb_flushes = @ + 1]
        ELSE st2

\* record_context_switch taking its per-ASID record with entry().or_default().
record_context_switch_CreatesEntry(st, asid, needed_flush, time_cycles, ts) ==
    LET st1 == [st EXCEPT !.context_switches = @ + 1,
                          !.context_switch_time_total = @ + time_cycles]
        st2 == IF needed_flush
               THEN [st1 EXCEPT !.context_switches_with_flush = @ + 1]
               ELSE st1
        per == or_default(st2.per_asid_stats, asid)
    IN  [st2 EXCEPT !.per_asid_stats =
                        [per EXCEPT ![asid].activation_count = @ + 1,
                                    ![asid].last_used_timestamp = ts]]

record_context_switch(st, asid, needed_flush, time_cycles, ts) ==
    LET st1 == [st EXCEPT !.context_switches = @ + 1,
                          !.context_switch_time_total = @ + time_cycles]
        st2 == IF needed_flush
               THEN [st1 EXCEPT !.context_switches_with_flush = @ + 1]
               ELSE st1
    IN  IF asid \in DOMAIN st2.per_asid_stats
        THEN [st2 EXCEPT !.per_asid_stats[asid].activation_count = @ + 1,
                         !.per_asid_stats[asid].last_used_timestamp = ts]
        ELSE st2

record_vmspace_activation(st) ==
    [st EXCEPT !.vmspace_activations = @ + 1]

set_pcid_enabled(st, enabled) ==
    [st EXCEPT !.pcid_enabled = IF enabled THEN 1 ELSE 0]

\* AsidStatsReport: the counters as loaded, pcid_enabled as a bool, the
\* table's size and a copy of it.
get_report(st) ==
    [ allocations_total |-> st.allocations_total,
      deallocations_total |-> st.deallocations_total,
      allocation_failures |-> st.allocation_failures,
      generation_rollovers |-> st.generation_rollovers,
      bitmap_searches |-> st.bitmap_searches,
      map_searches |-> st.map_searches,
      asid_reuse_count |-> st.asid_reuse_count,
      tlb_single_address_flushes |-> st.tlb_single_address_flushes,
      tlb_single_context_flushes |-> st.tlb_single_context_flushes,
      tlb_all_context_flushes |-> st.tlb_all_context_flushes,
      tlb_full_flushes |-> st.tlb_full_flushes,
      context_switches |-> st.context_switches,
      context_switches_with_flush |-> st.context_switches_with_flush,
      vmspace_activations |-> st.vmspace_activations,
      allocation_time_total |-> st.allocation_time_total,
      deallocation_time_total |-> st.deallocation_time_total,
      tlb_flush_time_total |-> st.tlb_flush_time_total,
      context_switch_time_total |-> st.context_switch_time_total,
      active_asids |-> st.active_asids,
      current_generation |-> st.current_generation,
      pcid_enabled |-> (st.pcid_enabled # 0),
      total_asids_used |-> Cardinality(DOMAIN st.per_asid_stats),
      per_asid_stats |-> st.per_asid_stats ]

\* The 18 counters stored to 0 and the table cleared; active_asids,
\* current_generation and pcid_enabled are not stored to.
reset(st) ==
    [st EXCEPT !.allocations_total = 0, !.deallocations_total = 0,
               !.allocation_failures = 0, !.generation_rollovers = 0,
               !.asid_reuse_count = 0, !.bitmap_searches = 0,
               !.map_searches = 0,
               !.tlb_single_address_flushes = 0,
               !.tlb_single_context_flushes = 0,
               !.tlb_all_context_flushes = 0, !.tlb_full_flushes = 0,
               !.context_switches = 0, !.context_switches_with_flush = 0,
               !.vmspace_activations = 0,
               !.allocation_time_total = 0, !.deallocation_time_total = 0,
               !.tlb_flush_time_total = 0, !.context_switch_time_total = 0,
               !.per_asid_stats = << >>]

TlbOperationType == {"SingleAddress", "SingleContext", "AllContexts", "FullFlush"}

\* ------------------------------------------------------- AsidManager
AsidManager_new ==
    [ bitmap |-> [i \in 0 .. (BitmapLen - 1) |-> {}],
      next |-> ASID_MIN,
      current_generation |-> 0 ]

\* The IDs whose bitmap bit is 1.
BitmapIds(m) ==
    UNION {{ASID_MIN + i * WordBits + b : b \in m.bitmap[i]} :
               i \in DOMAIN m.bitmap}

\* Both loops of the search: the first word, in scan order, that is not
\* u64::MAX, whose trailing_zeros is below 64 and (first loop only) whose
\* ASID is <= ASID_CAP.
find_and_set_free_bit(m, st) ==
    LET st1 == record_bitmap_search(st)
        start == m.next - ASID_MIN
        bitOf(i) == trailing_zeros(m.bitmap[i])
        asidOf(i) == ASID_MIN + i * WordBits + bitOf(i)
        hit(i) == m.bitmap[i] # FullWord /\ bitOf(i) < WordBits
        first == {i \in (start \div WordBits) .. (BitmapLen - 1) :
                      hit(i) /\ asidOf(i) <= ASID_CAP}
        second == {i \in 0 .. ((start \div WordBits) - 1) : hit(i)}
    IN  IF first # {}
        THEN LET i == Min(first)
                 nx == (asidOf(i) + 1) % U16Mod
             IN  [ m |-> [m EXCEPT !.bitmap[i] = @ \cup {bitOf(i)},
                                   !.next = IF nx > ASID_CAP THEN ASID_MIN
                                            ELSE nx],
                   st |-> st1, res |-> Some(asidOf(i)) ]
        ELSE IF second # {}
        THEN LET i == Min(second)
             IN  [ m |-> [m EXCEPT !.bitmap[i] = @ \cup {bitOf(i)},
                                   !.next = (asidOf(i) + 1) % U16Mod],
                   st |-> st1, res |-> Some(asidOf(i)) ]
        ELSE [ m |-> m, st |-> st1, res |-> None ]

\* increment_generation with a plain + 1 in place of wrapping_add(1).
AsidManager_increment_generation_NoWrap(m, st) ==
    LET g == m.current_generation + 1
    IN  [ m |-> [ bitmap |-> [i \in 0 .. (BitmapLen - 1) |-> {}],
                  next |-> ASID_MIN,
                  current_generation |-> g ],
          st |-> record_generation_rollover(st, g) ]

AsidManager_increment_generation(m, st) ==
    LET g == (m.current_generation + 1) % U16Mod
    IN  [ m |-> [ bitmap |-> [i \in 0 .. (BitmapLen - 1) |-> {}],
                  next |-> ASID_MIN,
                  current_generation |-> g ],
          st |-> record_generation_rollover(st, g) ]

AsidManager_allocate(m, st) ==
    LET r1 == find_and_set_free_bit(m, st)
    IN  IF r1.res.some
        THEN [m |-> r1.m, st |-> r1.st, res |-> r1.res.val]
        ELSE LET g == AsidManager_increment_generation(r1.m, r1.st)
                 r2 == find_and_set_free_bit(g.m, g.st)
             IN  [ m |-> r2.m, st |-> r2.st,
                   res |-> IF r2.res.some THEN r2.res.val
                           ELSE ASID_FLUSH_REQUIRED ]

\* The caller passes an asid in [ASID_MIN, ASID_CAP): the assert holds.
AsidManager_deallocate(m, asid) ==
    IF asid = ASID_FLUSH_REQUIRED THEN m
    ELSE LET index == (asid - ASID_MIN) \div WordBits
             bit == (asid - ASID_MIN) % WordBits
         IN  [m EXCEPT !.bitmap[index] = @ \ {bit}]

\* ------------------------------------------- the public functions
\* pub fn allocate(): the manager's allocate under the lock, then the
\* counters.
allocate(m, st, time_cycles, ts) ==
    LET r == AsidManager_allocate(m, st)
    IN  [ m |-> r.m,
          st |-> IF r.res = ASID_FLUSH_REQUIRED
                 THEN record_allocation_failure(r.st)
                 ELSE record_allocation(r.st, r.res, time_cycles, ts),
          res |-> r.res ]

\* deallocate without its early return for ASID_FLUSH_REQUIRED.
deallocate_NoSentinelReturn(m, st, asid, time_cycles) ==
    [ m |-> IF asid >= ASID_MIN /\ asid < ASID_CAP
            THEN AsidManager_deallocate(m, asid) ELSE m,
      st |-> record_deallocation(st, asid, time_cycles) ]

\* pub fn deallocate(asid)
deallocate(m, st, asid, time_cycles) ==
    IF asid = ASID_FLUSH_REQUIRED THEN [m |-> m, st |-> st]
    ELSE [ m |-> IF asid >= ASID_MIN /\ asid < ASID_CAP
                 THEN AsidManager_deallocate(m, asid) ELSE m,
           st |-> record_deallocation(st, asid, time_cycles) ]

\* pub fn increment_generation()
increment_generation(m, st) == AsidManager_increment_generation(m, st)

\* ------------------------------------------------------------ ghosts
Done(op, arg, res) == [op |-> op, arg |-> arg, res |-> res, report |-> << >>]

RECURSIVE RemoveFirst(_, _)
\* s without its first entry for asid a.
RemoveFirst(s, a) ==
    IF s = << >> THEN << >>
    ELSE IF Head(s)[1] = a THEN Tail(s)
    ELSE <<Head(s)>> \o RemoveFirst(Tail(s), a)

\* Arguments deallocate() is called with: in range, the sentinel, beyond.
DeallocArgs == {ASID_MIN, ASID_MIN + 1, ASID_CAP - 1, ASID_CAP, ASID_CAP + 1}

\* ------------------------------------------------------------ pcid.rs
PCID_INVALID == PCID_CAP

is_pcid_supported == cpu.pcid
is_invpcid_supported == cpu.invpcid

\* One call of invpcid(typ, pcid, addr): the INVPCID instruction, or the CR3
\* reload it falls back to (which writes CR3 back unchanged).
invpcid(typ, pcid, addr) ==
    << [ typ |-> typ, pcid |-> pcid, addr |-> addr,
         insn |-> IF is_invpcid_supported THEN "invpcid" ELSE "cr3_reload" ] >>

invalidate_pcid(pcid) == invpcid("SingleContext", pcid, 0)

\* The bits of a 12-bit value, as the set of their positions.
BitsOf(n) == {i \in 0 .. 11 : (n \div (2 ^ i)) % 2 = 1}
\* Cr3Flags: PAGE_LEVEL_WRITETHROUGH is bit 3, PAGE_LEVEL_CACHE_DISABLE bit 4.
Cr3Flags_all == {3, 4}
PAGE_LEVEL_CACHE_DISABLE == {4}
\* Cr3Flags::from_bits_truncate: the bits that are no flag are dropped.
Cr3Flags_from_bits_truncate(n) == BitsOf(n) \cap Cr3Flags_all

set_cr3_with_pcid(c3, page_table_addr, pcid) ==
    LET pcid_flags == IF pcid = PCID_INVALID THEN {}
                      ELSE Cr3Flags_from_bits_truncate(pcid % PCID_CAP)
        noflush == IF cpu.pcide
                   THEN IF c3.addr = page_table_addr
                        THEN PAGE_LEVEL_CACHE_DISABLE ELSE {}
                   ELSE {}
    IN  [addr |-> page_table_addr, flags |-> pcid_flags \cup noflush]

\* ------------------------------------------------------------- IdAlloc
\* An IdAlloc is the set of its allocated IDs.
IdAlloc_with_capacity(n) == {}
\* alloc(): the results it may return, None only when every ID is taken.
IdAlloc_alloc(a, n) ==
    IF (0 .. (n - 1)) \ a = {} THEN {None}
    ELSE {Some(i) : i \in (0 .. (n - 1)) \ a}
IdAlloc_free(a, id) == a \ {id}
IdAlloc_is_allocated(a, id) == id \in a
IdAlloc_alloc_specific(a, id) == IF id \in a THEN None ELSE Some(id)

\* ------------------------------------------------ ProcessCtxIdManager
ProcessCtxIdManager_new(max_process_contexts) ==
    [ id_allocator |-> IdAlloc_with_capacity(max_process_contexts),
      max_process_contexts |-> max_process_contexts,
      pcid_states |-> [i \in 0 .. (max_process_contexts - 1) |-> "Free"],
      hw_pcid_supported |-> is_pcid_supported ]

\* allocate(), alloc being what id_allocator.alloc() returned.
ProcessCtxIdManager_allocate(M, alloc) ==
    IF ~alloc.some THEN [M |-> M, res |-> None]
    ELSE LET id == alloc.val
             M1 == [M EXCEPT !.id_allocator = @ \cup {id}]
         IN  IF id >= Cardinality(DOMAIN M1.pcid_states) THEN [M |-> M1, res |-> Some(id)]
             ELSE [ M |-> [M1 EXCEPT !.pcid_states[id] = "Allocated"],
                    res |-> Some(id) ]

ProcessCtxIdManager_release_KeepsBit(M, id) ==
    IF id < M.max_process_contexts
    THEN [M EXCEPT !.pcid_states[id] = "Free"]
    ELSE M

ProcessCtxIdManager_release_KeepsState(M, id) ==
    IF id < M.max_process_contexts
    THEN [M EXCEPT !.id_allocator = IdAlloc_free(@, id)]
    ELSE M

ProcessCtxIdManager_release(M, id) ==
    IF id < M.max_process_contexts
    THEN [M EXCEPT !.id_allocator = IdAlloc_free(@, id),
                   !.pcid_states[id] = "Free"]
    ELSE M

ProcessCtxIdManager_is_allocated(M, id) ==
    IF id >= M.max_process_contexts THEN FALSE
    ELSE IdAlloc_is_allocated(M.id_allocator, id)

ProcessCtxIdManager_allocate_specific_AlwaysMarks(M, id) ==
    IF id >= M.max_process_contexts THEN [M |-> M, res |-> None]
    ELSE LET allocated == IdAlloc_alloc_specific(M.id_allocator, id)
         IN  [ M |-> [M EXCEPT !.id_allocator = @ \cup {id},
                                !.pcid_states[id] = "Allocated"],
               res |-> allocated ]

ProcessCtxIdManager_allocate_specific(M, id) ==
    IF id >= M.max_process_contexts THEN [M |-> M, res |-> None]
    ELSE LET allocated == IdAlloc_alloc_specific(M.id_allocator, id)
         IN  IF allocated.some
             THEN [ M |-> [M EXCEPT !.id_allocator = @ \cup {id},
                                    !.pcid_states[id] = "Allocated"],
                    res |-> allocated ]
             ELSE [M |-> M, res |-> allocated]

ProcessCtxIdManager_activate_Toggles(M, id) ==
    IF ~ProcessCtxIdManager_is_allocated(M, id)
           \/ id >= M.max_process_contexts
    THEN [M |-> M, res |-> None]
    ELSE [ M |-> [M EXCEPT !.pcid_states[id] =
                      IF @ = "Active" THEN "Allocated" ELSE "Active"],
           res |-> Some(0) ]

\* activate without its is_allocated test.
ProcessCtxIdManager_activate_Unchecked(M, id) ==
    IF id >= M.max_process_contexts
    THEN [M |-> M, res |-> None]
    ELSE [M |-> [M EXCEPT !.pcid_states[id] = "Active"], res |-> Some(0)]

\* activate(id): res.some is Some(()).
ProcessCtxIdManager_activate(M, id) ==
    IF ~ProcessCtxIdManager_is_allocated(M, id)
           \/ id >= M.max_process_contexts
    THEN [M |-> M, res |-> None]
    ELSE [M |-> [M EXCEPT !.pcid_states[id] = "Active"], res |-> Some(0)]

\* deactivate(id); inv is the invalidation it issues.
ProcessCtxIdManager_deactivate(M, id) ==
    IF ~ProcessCtxIdManager_is_allocated(M, id)
           \/ id >= M.max_process_contexts
    THEN [M |-> M, res |-> None, inv |-> << >>]
    ELSE [ M |-> [M EXCEPT !.pcid_states[id] = "Allocated"],
           res |-> Some(0),
           inv |-> IF M.hw_pcid_supported THEN invalidate_pcid(id)
                   ELSE << >> ]

ProcessCtxIdManager_is_active(M, id) ==
    IF id >= M.max_process_contexts THEN FALSE
    ELSE M.pcid_states[id] = "Active"

RECURSIVE CountActive(_, _)
CountActive(pcid_states, n) ==
    IF n = 0 THEN 0
    ELSE CountActive(pcid_states, n - 1)
             + (IF pcid_states[n - 1] = "Active" THEN 1 ELSE 0)

ProcessCtxIdManager_active_count(M) ==
    CountActive(M.pcid_states, Cardinality(DOMAIN M.pcid_states))

ProcessCtxIdManager_capacity(M) == M.max_process_contexts
ProcessCtxIdManager_has_hw_pcid_support(M) == M.hw_pcid_supported

\* ------------------------------------------------------------ actions
\* The PCID layer after boot: the manager is created from the CPU's features.
PcidInit(has_pcid, has_invpcid, pcide) ==
    /\ cpu = [pcid |-> has_pcid, invpcid |-> has_invpcid, pcide |-> pcide]
    /\ cr3 = [addr |-> 0, flags |-> {}]
    /\ PROCESS_CTX_ID_MANAGER = ProcessCtxIdManager_new(MaxContexts)
    /\ VMSPACE_PCIDS = [t \in 1 .. MaxThreads |-> << >>]
    /\ trace = << >>
    /\ dirty = {}
    /\ held = {}
    /\ contexts = {}
    /\ installed = None

\* ------------------------------------------------- sys_asid_profiling
\* Result<SyscallReturn>: Ok(Return(n)) or Err(errno).
Ok(n) == [ok |-> TRUE, val |-> n, err |-> ""]
Err(errno) == [ok |-> FALSE, val |-> 0, err |-> errno]

\* The fields of the two #[repr(C)] structures, in declaration order, with
\* their sizes in bytes (u64 8, u32 4, u16 2).
Field(name, size) == [name |-> name, size |-> size]
AsidStatsUserspace ==
    << Field("allocations_total", 8), Field("deallocations_total", 8),
       Field("allocation_failures", 8), Field("generation_rollovers", 8),
       Field("bitmap_searches", 8), Field("map_searches", 8),
       Field("asid_reuse_count", 8),
       Field("tlb_single_address_flushes", 8),
       Field("tlb_single_context_flushes", 8),
       Field("tlb_all_context_flushes", 8), Field("tlb_full_flushes", 8),
       Field("context_switches", 8),
       Field("context_switches_with_flush", 8),
       Field("vmspace_activations", 8),
       Field("allocation_time_total", 8),
       Field("deallocation_time_total", 8),
       Field("tlb_flush_time_total", 8),
       Field("context_switch_time_total", 8),
       Field("active_asids", 4), Field("current_generation", 2),
       Field("pcid_enabled", 4), Field("total_asids_used", 4) >>
AsidEfficiencyUserspace ==
    << Field("allocation_success_rate", 8), Field("reuse_efficiency", 8),
       Field("flush_efficiency", 8), Field("avg_cycles_per_allocation", 8),
       Field("avg_cycles_per_context_switch", 8) >>

\* #[repr(C)]: each field at the next multiple of its alignment (its size,
\* for the integer types), the structure padded to its largest alignment.
AlignUp(n, a) == ((n + a - 1) \div a) * a
RECURSIVE COffset(_, _)
COffset(fields, i) ==
    IF i = 1 THEN 0
    ELSE AlignUp(COffset(fields, i - 1) + fields[i - 1].size, fields[i].size)
MaxAlign(fields) ==
    CHOOSE a \in {fields[i].size : i \in DOMAIN fields} :
        \A i \in DOMAIN fields : fields[i].size <= a
size_of(fields) ==
    AlignUp(COffset(fields, Len(fields)) + fields[Len(fields)].size,
            MaxAlign(fields))

\* write_field!: field i goes to buffer + offset, where offset is the sum of
\* field_bytes.len() of the fields written before it.
RECURSIVE WriteOffset(_, _)
WriteOffset(fields, i) ==
    IF i = 1 THEN 0
    ELSE WriteOffset(fields, i - 1) + fields[i - 1].size

\* The write_field! calls in order on a user buffer whose first `writable`
\* bytes are mapped: write_bytes fails (EFAULT) on the first field that does
\* not fit, and ? returns at once.
write_fields(fields, writable) ==
    \* offsets only grow, so the fields that fit are a prefix
    LET done == {i \in DOMAIN fields :
                    WriteOffset(fields, i) + fields[i].size <= writable}
    IN  [ writes |-> [i \in 1 .. Cardinality(done) |->
                        [ off |-> WriteOffset(fields, i),
                          len |-> fields[i].size,
                          field |-> fields[i].name ]],
          ok |-> (done = DOMAIN fields) ]

\* EfficiencyMetrics: each f64 as the quotient num / den it is computed from.
Ratio(num, den) == [num |-> num, den |-> den]
calculate_efficiency(report) ==
    [ allocation_success_rate |->
          IF report.allocations_total + report.allocation_failures > 0
          THEN Ratio(report.allocations_total,
                     report.allocations_total + report.allocation_failures)
          ELSE Ratio(1, 1),
      reuse_efficiency |->
          IF report.allocations_total > 0
          THEN Ratio(report.asid_reuse_count, report.allocations_total)
          ELSE Ratio(0, 1),
      flush_efficiency |->
          IF report.context_switches > 0
          THEN Ratio(report.context_switches
                         - report.context_switches_with_flush,
                     report.context_switches)
          ELSE Ratio(1, 1),
      avg_cycles_per_allocation |->
          IF report.allocations_total > 0
          THEN Ratio(report.allocation_time_total, report.allocations_total)
          ELSE Ratio(0, 1),
      avg_cycles_per_context_switch |->
          IF report.context_switches > 0
          THEN Ratio(report.context_switch_time_total,
                     report.context_switches)
          ELSE Ratio(0, 1) ]

\* (x * 1000000.0) as u64 and x as u64: the cast truncates. On quotients
\* with a denominator up to 4 the f64 product truncates to the same integer
\* as the exact one; MaxSysOps keeps the denominators within that.
PpmScale == 1000000
AsPpm(x) == (x.num * PpmScale) \div x.den
AsU64(x) == x.num \div x.den

NoEfficiency ==
    [ allocation_success_rate |-> 0, reuse_efficiency |-> 0,
      flush_efficiency |-> 0, avg_cycles_per_allocation |-> 0,
      avg_cycles_per_context_switch |-> 0 ]

AsidEfficiencyUserspace_from(efficiency) ==
    [ allocation_success_rate |-> AsPpm(efficiency.allocation_success_rate),
      reuse_efficiency |-> AsPpm(efficiency.reuse_efficiency),
      flush_efficiency |-> AsPpm(efficiency.flush_efficiency),
      avg_cycles_per_allocation |->
          AsU64(efficiency.avg_cycles_per_allocation),
      avg_cycles_per_context_switch |->
          AsU64(efficiency.avg_cycles_per_context_switch) ]

\* What one call leaves behind: its arguments, the writes it made to the
\* user buffer (offset, length, field), its result and, for action 3, the
\* structure it built.
SysCall(action, buffer_len, writable, w, ret, eff) ==
    [ action |-> action, buffer_len |-> buffer_len, writable |-> writable,
      writes |-> w, ret |-> ret, user_efficiency |-> eff ]

\* The two copy-out arms once past their size check.
CopyOut(action, buffer_len, writable, fields, eff) ==
    LET w == write_fields(fields, writable)
    IN  SysCall(action, buffer_len, writable, w.writes,
                IF w.ok THEN Ok(size_of(fields)) ELSE Err("EFAULT"), eff)

sys_asid_profiling_NoLenCheck(st, action, buffer_len, writable) ==
    CASE action = 0 ->
           [ st |-> st,
             sys |-> CopyOut(action, buffer_len, writable,
                             AsidStatsUserspace, NoEfficiency) ]
      [] action = 1 ->
           [ st |-> st,
             sys |-> SysCall(action, buffer_len, writable, << >>, Ok(0),
                             NoEfficiency) ]
      [] action = 2 ->
           [ st |-> reset(st),
             sys |-> SysCall(action, buffer_len, writable, << >>, Ok(0),
                             NoEfficiency) ]
      [] action = 3 ->
           [ st |-> st,
             sys |-> CopyOut(action, buffer_len, writable,
                             AsidEfficiencyUserspace,
                             AsidEfficiencyUserspace_from(
                                 calculate_efficiency(get_report(st)))) ]
      [] OTHER ->
           [ st |-> st,
             sys |-> SysCall(action, buffer_len, writable, << >>,
                             Err("EINVAL"), NoEfficiency) ]

sys_asid_profiling(st, action, buffer_len, writable) ==
    CASE action = 0 ->
           [ st |-> st,
             sys |-> IF buffer_len < size_of(AsidStatsUserspace)
                     THEN SysCall(action, buffer_len, writable, << >>,
                                  Err("EINVAL"), NoEfficiency)
                     ELSE CopyOut(action, buffer_len, writable,
                                  AsidStatsUserspace, NoEfficiency) ]
      [] action = 1 ->
           \* print_asid_stats: get_report and the kernel log only
           [ st |-> st,
             sys |-> SysCall(action, buffer_len, writable, << >>, Ok(0),
                             NoEfficiency) ]
      [] action = 2 ->
           \* reset_asid_stats
           [ st |-> reset(st),
             sys |-> SysCall(action, buffer_len, writable, << >>, Ok(0),
                             NoEfficiency) ]
      [] action = 3 ->
           [ st |-> st,
             sys |-> IF buffer_len < size_of(AsidEfficiencyUserspace)
                     THEN SysCall(action, buffer_len, writable, << >>,
                                  Err("EINVAL"), NoEfficiency)
                     ELSE CopyOut(action, buffer_len, writable,
                                  AsidEfficiencyUserspace,
                                  AsidEfficiencyUserspace_from(
                                      calculate_efficiency(get_report(st)))) ]
      [] OTHER ->
           [ st |-> st,
             sys |-> SysCall(action, buffer_len, writable, << >>,
                             Err("EINVAL"), NoEfficiency) ]

\* ------------------------------------------------- concurrent callers
Callers == 1 .. MaxCallers
Idle == [op |-> "idle", id |-> 0, step |-> 0, flag |-> FALSE]
At(op, id, step, flag) == [op |-> op, id |-> id, step |-> step, flag |-> flag]
\* Nobody is inside a call and both locks are free.
ParInit ==
    /\ pc = [t \in Callers |-> Idle]
    /\ locks = [id_allocator |-> 0, asid_manager |-> 0]

\* No system call has been made.
SysInit ==
    sys = SysCall(0, 0, 0, << >>, Ok(0), NoEfficiency)

Init ==
    /\ ASID_CAP \in CapConfigs
    /\ ASID_MANAGER = AsidManager_new
    /\ ASID_STATS = AsidStats_new
    /\ last = Done("init", 0, 0)
    /\ live = << >>
    /\ allocRun = 0
    /\ ops = 0
    /\ PcidInit(TRUE, TRUE, TRUE)
    /\ SysInit
    /\ ParInit

Allocate ==
    /\ ops < MaxOps
    /\ \E t \in CycleSamples, ts \in CycleSamples :
         LET r == allocate(ASID_MANAGER, ASID_STATS, t, ts)
         IN  /\ ASID_MANAGER' = r.m
             /\ ASID_STATS' = r.st
             /\ last' = Done("allocate", 0, r.res)
             /\ live' = Append(live, <<r.res, r.m.current_generation>>)
    /\ allocRun' = IF allocRun >= 0 THEN allocRun + 1 ELSE allocRun
    /\ ops' = ops + 1
    /\ UNCHANGED <<ASID_CAP, pcidVars, sysVars, parVars>>

Deallocate ==
    /\ ops < MaxOps
    /\ \E asid \in DeallocArgs, t \in CycleSamples :
         LET r == deallocate(ASID_MANAGER, ASID_STATS, asid, t)
         IN  /\ ASID_MANAGER' = r.m
             /\ ASID_STATS' = r.st
             /\ last' = Done("deallocate", asid, 0)
             /\ live' = RemoveFirst(live, asid)
    /\ allocRun' = -1
    /\ ops' = ops + 1
    /\ UNCHANGED <<ASID_CAP, pcidVars, sysVars, parVars>>

IncrementGeneration ==
    /\ ops < MaxOps
    /\ LET r == increment_generation(ASID_MANAGER, ASID_STATS)
       IN  /\ ASID_MANAGER' = r.m
           /\ ASID_STATS' = r.st
    /\ last' = Done("increment_generation", 0, 0)
    /\ allocRun' = -1
    /\ ops' = ops + 1
    /\ UNCHANGED <<ASID_CAP, live, pcidVars, sysVars, parVars>>

Reset ==
    /\ ops < MaxOps
    /\ ASID_STATS' = reset(ASID_STATS)
    /\ last' = Done("reset", 0, 0)
    /\ allocRun' = -1
    /\ ops' = ops + 1
    /\ UNCHANGED <<ASID_CAP, ASID_MANAGER, live, pcidVars, sysVars, parVars>>

GetReport ==
    /\ ops < MaxOps
    /\ last' = [op |-> "get_report", arg |-> 0, res |-> 0,
                report |-> get_report(ASID_STATS)]
    /\ allocRun' = -1
    /\ ops' = ops + 1
    /\ UNCHANGED <<ASID_CAP, ASID_MANAGER, ASID_STATS, live, pcidVars, sysVars, parVars>>

\* The recording calls the kernel makes on ASID_STATS from outside the
\* allocator.
RecordTlbOperation ==
    /\ ops < MaxOps
    /\ \E op_type \in TlbOperationType, asid \in {None, Some(ASID_MIN)},
          t \in CycleSamples :
         ASID_STATS' = record_tlb_operation(ASID_STATS, op_type, asid, t)
    /\ last' = Done("record_tlb_operation", 0, 0)
    /\ allocRun' = -1
    /\ ops' = ops + 1
    /\ UNCHANGED <<ASID_CAP, ASID_MANAGER, live, pcidVars, sysVars, parVars>>

RecordContextSwitch ==
    /\ ops < MaxOps
    /\ \E asid \in {ASID_MIN, ASID_CAP}, needed_flush \in BOOLEAN,
          t \in CycleSamples :
       \* get_timestamp() is read only when the ASID has an entry.
       \E ts \in IF asid \in DOMAIN ASID_STATS.per_asid_stats
                  THEN CycleSamples ELSE {0} :
         ASID_STATS' =
             record_context_switch(ASID_STATS, asid, needed_flush, t, ts)
    /\ last' = Done("record_context_switch", 0, 0)
    /\ allocRun' = -1
    /\ ops' = ops + 1
    /\ UNCHANGED <<ASID_CAP, ASID_MANAGER, live, pcidVars, sysVars, parVars>>

RecordOther ==
    /\ ops < MaxOps
    /\ \/ ASID_STATS' = record_vmspace_activation(ASID_STATS)
       \/ ASID_STATS' = record_map_search(ASID_STATS)
       \/ ASID_STATS' = record_asid_reuse(ASID_STATS, ASID_MIN)
       \/ \E enabled \in BOOLEAN :
             ASID_STATS' = set_pcid_enabled(ASID_STATS, enabled)
    /\ last' = Done("record", 0, 0)
    /\ allocRun' = -1
    /\ ops' = ops + 1
    /\ UNCHANGED <<ASID_CAP, ASID_MANAGER, live, pcidVars, sysVars, parVars>>

Next ==
    \/ Allocate
    \/ Deallocate
    \/ IncrementGeneration
    \/ Reset
    \/ GetReport
    \/ RecordTlbOperation
    \/ RecordContextSwitch
    \/ RecordOther

Spec == Init /\ [][Next]_vars

\* ============================================================ claims
\* The in-range IDs, and those whose bitmap bit is clear.
InRange == ASID_MIN .. (ASID_CAP - 1)
FreeIds(m) == InRange \ BitmapIds(m)
\* A step that completes the operation op.
Completes(op) == last'.op = op /\ ops' = ops + 1

\* C1: while the number of live IDs is at most ASID_CAP - ASID_MIN, no two
\* IDs that allocate() returned and deallocate() has not been given back are
\* equal.
C1_LiveIdsDistinct ==
    Len(live) <= ASID_CAP - ASID_MIN =>
        \A i, j \in DOMAIN live : i # j => live[i][1] # live[j][1]

\* C2: with ASID_CAP > ASID_MIN, allocate() returns an ID in
\* [ASID_MIN, ASID_CAP), never ASID_FLUSH_REQUIRED, and allocation_failures
\* stays 0.
C2_ExhaustionNeverSurfaced ==
    ASID_CAP > ASID_MIN =>
        /\ last.op = "allocate" =>
               last.res \in InRange /\ last.res # ASID_FLUSH_REQUIRED
        /\ ASID_STATS.allocation_failures = 0

\* C3: from a fresh allocator, the first ASID_CAP - ASID_MIN allocate() calls
\* leave generation = 0 and generation_rollovers = 0, and the next one
\* returns a valid ID with generation = 1 and generation_rollovers = 1.
C3_OneRolloverPerCapAllocations ==
    /\ allocRun \in 1 .. (ASID_CAP - ASID_MIN) =>
           /\ ASID_MANAGER.current_generation = 0
           /\ ASID_STATS.generation_rollovers = 0
    /\ allocRun = ASID_CAP - ASID_MIN + 1 =>
           /\ last.res \in InRange
           /\ ASID_MANAGER.current_generation = 1
           /\ ASID_STATS.generation_rollovers = 1

\* The first free ID at or above the cursor, else the first free ID.
NextFit(m) ==
    IF \E a \in FreeIds(m) : a >= m.next
    THEN Min({a \in FreeIds(m) : a >= m.next})
    ELSE Min(FreeIds(m))

\* C4: allocate() is next-fit: with a free ID, it returns the first ID with
\* a clear bit scanning from the cursor upward with wrap-around, sets that
\* bit, and moves the cursor to the following position (ASID_MIN past
\* ASID_CAP).
C4_NextFit ==
    [][ (Completes("allocate") /\ FreeIds(ASID_MANAGER) # {}) =>
            /\ last'.res = NextFit(ASID_MANAGER)
            /\ BitmapIds(ASID_MANAGER') =
                   BitmapIds(ASID_MANAGER) \cup {last'.res}
            /\ ASID_MANAGER'.next = IF last'.res + 1 > ASID_CAP
                                    THEN ASID_MIN ELSE last'.res + 1 ]_vars

C6_ActiveIsNetAllocations ==
    /\ ASID_STATS.allocations_total >= ASID_STATS.deallocations_total
    /\ ASID_STATS.active_asids =
           <<0, ASID_STATS.allocations_total
                    - ASID_STATS.deallocations_total>>

\* Every counter of a report is 0 and its per-ID table is empty.
ReportAllZero(r) ==
    /\ r.allocations_total = 0 /\ r.deallocations_total = 0
    /\ r.allocation_failures = 0 /\ r.generation_rollovers = 0
    /\ r.bitmap_searches = 0 /\ r.map_searches = 0
    /\ r.asid_reuse_count = 0
    /\ r.tlb_single_address_flushes = 0
    /\ r.tlb_single_context_flushes = 0
    /\ r.tlb_all_context_flushes = 0 /\ r.tlb_full_flushes = 0
    /\ r.context_switches = 0 /\ r.context_switches_with_flush = 0
    /\ r.vmspace_activations = 0
    /\ r.allocation_time_total = 0 /\ r.deallocation_time_total = 0
    /\ r.tlb_flush_time_total = 0 /\ r.context_switch_time_total = 0
    /\ r.active_asids = U32Zero
    /\ r.current_generation = 0
    /\ r.total_asids_used = 0
    /\ r.per_asid_stats = << >>

\* C7: get_report() right after reset() returns a record in which every
\* counter is 0, active_asids and current_generation included, and the
\* per-ID table is empty.
C7_ResetThenReportAllZero ==
    [][ (last.op = "reset" /\ Completes("get_report")) =>
            ReportAllZero(last'.report) ]_vars

\* The IDs allocate() handed out in the current generation that deallocate()
\* has not been given back.
LiveInGeneration ==
    {live[i][1] : i \in {j \in DOMAIN live :
                            live[j][2] = ASID_MANAGER.current_generation}}

\* C8: the set of IDs whose bitmap bit is 1 equals the set of IDs handed out
\* by allocate() in the current generation and not yet deallocated.
C8_BitmapIsLiveSet == BitmapIds(ASID_MANAGER) = LiveInGeneration

\* C9: deallocate(id) of an in-range id whose bitmap bit is clear (a double
\* free, a never-allocated ID) changes neither deallocations_total nor
\* active_asids.
C9_BogusDeallocateNotCounted ==
    [][ (Completes("deallocate") /\ last'.arg \in FreeIds(ASID_MANAGER)) =>
            /\ ASID_STATS'.deallocations_total =
                   ASID_STATS.deallocations_total
            /\ ASID_STATS'.active_asids = ASID_STATS.active_asids ]_vars

\* C10: deallocate(ASID_FLUSH_REQUIRED) leaves the bitmap, the cursor, the
\* generation and every profiling counter unchanged.
C10_DeallocateSentinelNoOp ==
    [][ (Completes("deallocate") /\ last'.arg = ASID_FLUSH_REQUIRED) =>
            /\ ASID_MANAGER' = ASID_MANAGER
            /\ ASID_STATS' = ASID_STATS ]_vars

\* C10 witness: the sentinel an allocate() returned has been passed to
\* deallocate(), with counters that are not all 0.
C10_Witness ==
    /\ last.op = "deallocate" /\ last.arg = ASID_FLUSH_REQUIRED
    /\ ASID_MANAGER.current_generation > 0
    /\ ASID_STATS.deallocations_total > 0


\* ---------------------------------------- context-ID manager, driven directly
\* A bool answer, in the shape of the other results.
Bool(b) == [some |-> b, val |-> 0]

\* A pool operation of the trace.
PoolEv(typ, id) == [typ |-> typ, pcid |-> id, addr |-> 0, insn |-> "pool"]
Events(tr) == {tr[i] : i \in 1 .. Len(tr)}
Allocs(tr) == {e.pcid : e \in {x \in Events(tr) : x.typ = "alloc"}}
Frees(tr) == {e.pcid : e \in {x \in Events(tr) : x.typ = "free"}}
Invalidated(tr) ==
    {e.pcid : e \in {x \in Events(tr) : x.typ = "SingleContext"}}

\* The ghosts follow the trace of the operation.
Ghosts(tr, activated) ==
    /\ trace' = tr
    /\ held' = (held \cup Allocs(tr)) \ Frees(tr)
    /\ dirty' = (dirty \ Invalidated(tr)) \cup activated

\* The arguments of the manager's operations: every ID and one beyond.
CtxArgs == 0 .. MaxContexts

\* The CPUs the kernel runs on; CR4.PCIDE is only ever set on one with PCID.
CpuConfigs ==
    {c \in [pcid : BOOLEAN, invpcid : BOOLEAN, pcide : BOOLEAN] :
        c.pcide => c.pcid}

InitCtx ==
    /\ ASID_CAP = Min(CapConfigs)
    /\ ASID_MANAGER = AsidManager_new
    /\ ASID_STATS = AsidStats_new
    /\ last = Done("init", 0, None)
    /\ live = << >>
    /\ allocRun = 0
    /\ ops = 0
    /\ \E c \in CpuConfigs : PcidInit(c.pcid, c.invpcid, c.pcide)
    /\ SysInit
    /\ ParInit

CtxFrame ==
    UNCHANGED <<asidVars, ops, cpu, cr3, VMSPACE_PCIDS, contexts, installed,
                sysVars, parVars>>

CtxAllocate ==
    /\ \E alloc \in IdAlloc_alloc(PROCESS_CTX_ID_MANAGER.id_allocator,
                                  PROCESS_CTX_ID_MANAGER.max_process_contexts) :
         LET r == ProcessCtxIdManager_allocate(PROCESS_CTX_ID_MANAGER, alloc)
         IN  /\ PROCESS_CTX_ID_MANAGER' = r.M
             /\ last' = Done("ctx_allocate", 0, r.res)
             /\ Ghosts(IF r.res.some THEN <<PoolEv("alloc", r.res.val)>>
                       ELSE << >>, {})
    /\ CtxFrame

CtxAllocateSpecific ==
    /\ \E id \in CtxArgs :
         LET r == ProcessCtxIdManager_allocate_specific(
                      PROCESS_CTX_ID_MANAGER, id)
         IN  /\ PROCESS_CTX_ID_MANAGER' = r.M
             /\ last' = Done("ctx_allocate_specific", id, r.res)
             /\ Ghosts(IF r.res.some THEN <<PoolEv("alloc", r.res.val)>>
                       ELSE << >>, {})
    /\ CtxFrame

CtxRelease ==
    /\ \E id \in CtxArgs :
         /\ PROCESS_CTX_ID_MANAGER' =
                ProcessCtxIdManager_release(PROCESS_CTX_ID_MANAGER, id)
         /\ last' = Done("ctx_release", id, None)
         /\ Ghosts(IF id < PROCESS_CTX_ID_MANAGER.max_process_contexts
                   THEN <<PoolEv("free", id)>> ELSE << >>, {})
    /\ CtxFrame

CtxActivate ==
    /\ \E id \in CtxArgs :
         LET r == ProcessCtxIdManager_activate(PROCESS_CTX_ID_MANAGER, id)
         IN  /\ PROCESS_CTX_ID_MANAGER' = r.M
             /\ last' = Done("ctx_activate", id, r.res)
             /\ Ghosts(<< >>, IF r.res.some THEN {id} ELSE {})
    /\ CtxFrame

CtxDeactivate ==
    /\ \E id \in CtxArgs :
         LET r == ProcessCtxIdManager_deactivate(PROCESS_CTX_ID_MANAGER, id)
         IN  /\ PROCESS_CTX_ID_MANAGER' = r.M
             /\ last' = Done("ctx_deactivate", id, r.res)
             /\ Ghosts(IF r.res.some
                       THEN <<PoolEv("deactivate", id)>> \o r.inv
                       ELSE << >>, {})
    /\ CtxFrame

CtxIsActive ==
    /\ \E id \in CtxArgs :
         last' = Done("ctx_is_active", id,
                 Bool(ProcessCtxIdManager_is_active(PROCESS_CTX_ID_MANAGER,
                                                    id)))
    /\ trace' = << >>
    /\ UNCHANGED <<PROCESS_CTX_ID_MANAGER, dirty, held>>
    /\ CtxFrame

CtxActiveCount ==
    /\ last' = Done("ctx_active_count", 0,
               Some(ProcessCtxIdManager_active_count(PROCESS_CTX_ID_MANAGER)))
    /\ trace' = << >>
    /\ UNCHANGED <<PROCESS_CTX_ID_MANAGER, dirty, held>>
    /\ CtxFrame

NextCtx ==
    \/ CtxAllocate
    \/ CtxAllocateSpecific
    \/ CtxRelease
    \/ CtxActivate
    \/ CtxDeactivate
    \/ CtxIsActive
    \/ CtxActiveCount

SpecCtx == InitCtx /\ [][NextCtx]_vars

\* ------------------------------------------ VmSpacePcidExt (vm_space_pcid.rs)
Threads == 1 .. MaxThreads
VmSpaces == 1 .. MaxVmSpaces

\* The HashMap of one thread, as a function on the VmSpaces it has a key for.
MapGet(map, v) == IF v \in DOMAIN map THEN Some(map[v]) ELSE None
MapInsert(map, v, pcid) ==
    [x \in DOMAIN map \cup {v} |-> IF x = v THEN pcid ELSE map[x]]
MapRemove(map, v) == [x \in DOMAIN map \ {v} |-> map[x]]

\* self.pt.get_paddr(): page tables are told apart by their VmSpace.
PtPaddr(v) == v

\* VmSpace::activate(): loads the page table of the VmSpace into CR3.
VmSpace_activate(c3, pt_paddr) == [addr |-> pt_paddr, flags |-> {}]

get_pcid(map, v) == MapGet(map, v)

allocate_pcid_NoHwCheck(map, M, v, alloc) ==
    IF get_pcid(map, v).some
    THEN [map |-> map, M |-> M, res |-> get_pcid(map, v), tr |-> << >>]
    ELSE LET r == ProcessCtxIdManager_allocate(M, alloc)
         IN  IF ~r.res.some
             THEN [map |-> map, M |-> r.M, res |-> None, tr |-> << >>]
             ELSE [ map |-> MapInsert(map, v, r.res.val), M |-> r.M,
                    res |-> r.res, tr |-> <<PoolEv("alloc", r.res.val)>> ]

\* allocate_pcid on the calling thread's map; alloc is what the pool's alloc()
\* returns if it is called.
allocate_pcid(map, M, v, alloc) ==
    IF get_pcid(map, v).some
    THEN [map |-> map, M |-> M, res |-> get_pcid(map, v), tr |-> << >>]
    ELSE IF ~ProcessCtxIdManager_has_hw_pcid_support(M)
    THEN [map |-> map, M |-> M, res |-> Some(PCID_INVALID), tr |-> << >>]
    ELSE LET r == ProcessCtxIdManager_allocate(M, alloc)
         IN  IF ~r.res.some
             THEN [map |-> map, M |-> r.M, res |-> None, tr |-> << >>]
             ELSE [ map |-> MapInsert(map, v, r.res.val), M |-> r.M,
                    res |-> r.res, tr |-> <<PoolEv("alloc", r.res.val)>> ]

activate_with_pcid_FallbackZero(map, M, c3, v, alloc) ==
    LET a == allocate_pcid(map, M, v, alloc)
        pcid == IF a.res.some THEN a.res.val ELSE 0
        act == IF pcid # PCID_INVALID
               THEN ProcessCtxIdManager_activate(a.M, pcid)
               ELSE [M |-> a.M, res |-> None]
        c3a == VmSpace_activate(c3, PtPaddr(v))
    IN  [ map |-> a.map, M |-> act.M, tr |-> a.tr, pcid |-> pcid,
          installed |-> IF is_pcid_supported THEN Some(pcid) ELSE None,
          activated |-> IF act.res.some THEN {pcid} ELSE {},
          cr3 |-> IF is_pcid_supported
                  THEN set_cr3_with_pcid(c3a, PtPaddr(v), pcid) ELSE c3a ]

activate_with_pcid(map, M, c3, v, alloc) ==
    LET a == allocate_pcid(map, M, v, alloc)
        pcid == IF a.res.some THEN a.res.val ELSE PCID_INVALID
        act == IF pcid # PCID_INVALID
               THEN ProcessCtxIdManager_activate(a.M, pcid)
               ELSE [M |-> a.M, res |-> None]
        c3a == VmSpace_activate(c3, PtPaddr(v))
    IN  [ map |-> a.map, M |-> act.M, tr |-> a.tr, pcid |-> pcid,
          installed |-> IF is_pcid_supported THEN Some(pcid) ELSE None,
          activated |-> IF act.res.some THEN {pcid} ELSE {},
          cr3 |-> IF is_pcid_supported
                  THEN set_cr3_with_pcid(c3a, PtPaddr(v), pcid) ELSE c3a ]

release_pcid_ReleaseFirst(map, M, v) ==
    LET pcid_opt == MapGet(map, v)
    IN  IF pcid_opt.some /\ pcid_opt.val # PCID_INVALID
        THEN LET M1 == ProcessCtxIdManager_release(M, pcid_opt.val)
                 d == ProcessCtxIdManager_deactivate(M1, pcid_opt.val)
             IN  [ map |-> MapRemove(map, v), M |-> d.M,
                   tr |-> <<PoolEv("free", pcid_opt.val),
                            PoolEv("deactivate", pcid_opt.val)>> \o d.inv ]
        ELSE [map |-> MapRemove(map, v), M |-> M, tr |-> << >>]

release_pcid_KeepsEntry(map, M, v) ==
    LET pcid_opt == MapGet(map, v)
    IN  IF pcid_opt.some /\ pcid_opt.val # PCID_INVALID
        THEN LET d == ProcessCtxIdManager_deactivate(M, pcid_opt.val)
             IN  [ map |-> map,
                   M |-> ProcessCtxIdManager_release(d.M, pcid_opt.val),
                   tr |-> <<PoolEv("deactivate", pcid_opt.val)>> \o d.inv
                            \o <<PoolEv("free", pcid_opt.val)>> ]
        ELSE [map |-> map, M |-> M, tr |-> << >>]

release_pcid(map, M, v) ==
    LET pcid_opt == MapGet(map, v)
    IN  IF pcid_opt.some /\ pcid_opt.val # PCID_INVALID
        THEN LET d == ProcessCtxIdManager_deactivate(M, pcid_opt.val)
             IN  [ map |-> MapRemove(map, v),
                   M |-> ProcessCtxIdManager_release(d.M, pcid_opt.val),
                   tr |-> <<PoolEv("deactivate", pcid_opt.val)>> \o d.inv
                            \o <<PoolEv("free", pcid_opt.val)>> ]
        ELSE [map |-> MapRemove(map, v), M |-> M, tr |-> << >>]

\* -------------------------------- ProcessContextManager (the example module)
\* create_context_with_id: ProcessContext::with_specific_id, then the insert.
create_context_with_id(ctxs, M, id) ==
    LET r == ProcessCtxIdManager_allocate_specific(M, id)
    IN  IF r.res.some
        THEN [ contexts |-> ctxs \cup {id}, M |-> r.M, res |-> r.res,
               tr |-> <<PoolEv("alloc", id)>> ]
        ELSE [contexts |-> ctxs, M |-> r.M, res |-> None, tr |-> << >>]

\* remove_context and the drop of the ProcessContext it returns.
remove_context(ctxs, M, id) ==
    IF id \in ctxs
    THEN [ contexts |-> ctxs \ {id},
           M |-> ProcessCtxIdManager_release(M, id),
           tr |-> IF id < M.max_process_contexts
                  THEN <<PoolEv("free", id)>> ELSE << >> ]
    ELSE [contexts |-> ctxs, M |-> M, tr |-> << >>]

\* ------------------------------------------- the binding layer, on threads
InitVm == InitCtx

VmFrame ==
    /\ ops < MaxVmOps
    /\ ops' = ops + 1
    /\ UNCHANGED <<asidVars, cpu, sysVars, parVars>>
PoolAllocs == IdAlloc_alloc(PROCESS_CTX_ID_MANAGER.id_allocator,
                            PROCESS_CTX_ID_MANAGER.max_process_contexts)

VmAllocatePcid ==
    /\ \E t \in Threads, v \in VmSpaces, alloc \in PoolAllocs :
         LET r == allocate_pcid(VMSPACE_PCIDS[t], PROCESS_CTX_ID_MANAGER, v,
                                alloc)
         IN  /\ VMSPACE_PCIDS' = [VMSPACE_PCIDS EXCEPT ![t] = r.map]
             /\ PROCESS_CTX_ID_MANAGER' = r.M
             /\ last' = Done("allocate_pcid", v, r.res)
             /\ Ghosts(r.tr, {})
    /\ UNCHANGED <<cr3, contexts, installed>>
    /\ VmFrame

VmGetPcid ==
    /\ \E t \in Threads, v \in VmSpaces :
         /\ last' = Done("get_pcid", v, get_pcid(VMSPACE_PCIDS[t], v))
    /\ Ghosts(<< >>, {})
    /\ UNCHANGED <<VMSPACE_PCIDS, PROCESS_CTX_ID_MANAGER, cr3, contexts,
                   installed>>
    /\ VmFrame

VmActivateWithPcid ==
    /\ \E t \in Threads, v \in VmSpaces, alloc \in PoolAllocs :
         LET r == activate_with_pcid(VMSPACE_PCIDS[t], PROCESS_CTX_ID_MANAGER,
                                     cr3, v, alloc)
         IN  /\ VMSPACE_PCIDS' = [VMSPACE_PCIDS EXCEPT ![t] = r.map]
             /\ PROCESS_CTX_ID_MANAGER' = r.M
             /\ cr3' = r.cr3
             /\ installed' = r.installed
             /\ last' = Done("activate_with_pcid", v, Some(r.pcid))
             /\ Ghosts(r.tr, r.activated)
    /\ UNCHANGED contexts
    /\ VmFrame

VmReleasePcid ==
    /\ \E t \in Threads, v \in VmSpaces :
         LET r == release_pcid(VMSPACE_PCIDS[t], PROCESS_CTX_ID_MANAGER, v)
         IN  /\ VMSPACE_PCIDS' = [VMSPACE_PCIDS EXCEPT ![t] = r.map]
             /\ PROCESS_CTX_ID_MANAGER' = r.M
             /\ last' = Done("release_pcid", v, None)
             /\ Ghosts(r.tr, {})
    /\ UNCHANGED <<cr3, contexts, installed>>
    /\ VmFrame

PcCreateContextWithId ==
    /\ \E id \in CtxArgs :
         LET r == create_context_with_id(contexts, PROCESS_CTX_ID_MANAGER, id)
         IN  /\ contexts' = r.contexts
             /\ PROCESS_CTX_ID_MANAGER' = r.M
             /\ last' = Done("create_context_with_id", id, r.res)
             /\ Ghosts(r.tr, {})
    /\ UNCHANGED <<cr3, VMSPACE_PCIDS, installed>>
    /\ VmFrame

PcRemoveContext ==
    /\ \E id \in CtxArgs :
         LET r == remove_context(contexts, PROCESS_CTX_ID_MANAGER, id)
         IN  /\ contexts' = r.contexts
             /\ PROCESS_CTX_ID_MANAGER' = r.M
             /\ last' = Done("remove_context", id, None)
             /\ Ghosts(r.tr, {})
    /\ UNCHANGED <<cr3, VMSPACE_PCIDS, installed>>
    /\ VmFrame

NextVm ==
    \/ VmAllocatePcid
    \/ VmGetPcid
    \/ VmActivateWithPcid
    \/ VmReleasePcid
    \/ PcCreateContextWithId
    \/ PcRemoveContext

SpecVm == InitVm /\ [][NextVm]_vars

\* ------------------------- one thread: binding layer, pool and rollovers
\* The thread.
Thread1 == Min(Threads)

InitOne == InitCtx

OneFrame ==
    /\ ops < MaxOneOps
    /\ ops' = ops + 1
    /\ UNCHANGED <<ASID_CAP, live, allocRun, cpu, sysVars, parVars>>

OneAllocatePcid ==
    /\ \E v \in VmSpaces, alloc \in PoolAllocs :
         LET r == allocate_pcid(VMSPACE_PCIDS[Thread1],
                                PROCESS_CTX_ID_MANAGER, v, alloc)
         IN  /\ VMSPACE_PCIDS' = [VMSPACE_PCIDS EXCEPT ![Thread1] = r.map]
             /\ PROCESS_CTX_ID_MANAGER' = r.M
             /\ last' = Done("allocate_pcid", v, r.res)
             /\ Ghosts(r.tr, {})
    /\ UNCHANGED <<cr3, contexts, installed, ASID_MANAGER, ASID_STATS>>
    /\ OneFrame

OneActivateWithPcid ==
    /\ \E v \in VmSpaces, alloc \in PoolAllocs :
         LET r == activate_with_pcid(VMSPACE_PCIDS[Thread1],
                                     PROCESS_CTX_ID_MANAGER, cr3, v, alloc)
         IN  /\ VMSPACE_PCIDS' = [VMSPACE_PCIDS EXCEPT ![Thread1] = r.map]
             /\ PROCESS_CTX_ID_MANAGER' = r.M
             /\ cr3' = r.cr3
             /\ installed' = r.installed
             /\ last' = Done("activate_with_pcid", v, Some(r.pcid))
             /\ Ghosts(r.tr, r.activated)
    /\ UNCHANGED <<contexts, ASID_MANAGER, ASID_STATS>>
    /\ OneFrame

OneReleasePcid ==
    /\ \E v \in VmSpaces :
         LET r == release_pcid(VMSPACE_PCIDS[Thread1],
                               PROCESS_CTX_ID_MANAGER, v)
         IN  /\ VMSPACE_PCIDS' = [VMSPACE_PCIDS EXCEPT ![Thread1] = r.map]
             /\ PROCESS_CTX_ID_MANAGER' = r.M
             /\ last' = Done("release_pcid", v, None)
             /\ Ghosts(r.tr, {})
    /\ UNCHANGED <<cr3, contexts, installed, ASID_MANAGER, ASID_STATS>>
    /\ OneFrame

OneCreateContextWithId ==
    /\ \E id \in CtxArgs :
         LET r == create_context_with_id(contexts, PROCESS_CTX_ID_MANAGER, id)
         IN  /\ contexts' = r.contexts
             /\ PROCESS_CTX_ID_MANAGER' = r.M
             /\ last' = Done("create_context_with_id", id, r.res)
             /\ Ghosts(r.tr, {})
    /\ UNCHANGED <<cr3, VMSPACE_PCIDS, installed, ASID_MANAGER, ASID_STATS>>
    /\ OneFrame

\* The ASID allocator rolls its generation over.
OneIncrementGeneration ==
    /\ LET r == increment_generation(ASID_MANAGER, ASID_STATS)
       IN  /\ ASID_MANAGER' = r.m
           /\ ASID_STATS' = r.st
    /\ last' = Done("increment_generation", 0, None)
    /\ Ghosts(<< >>, {})
    /\ UNCHANGED <<cr3, VMSPACE_PCIDS, PROCESS_CTX_ID_MANAGER, contexts,
                   installed>>
    /\ OneFrame

NextOne ==
    \/ OneAllocatePcid
    \/ OneActivateWithPcid
    \/ OneReleasePcid
    \/ OneCreateContextWithId
    \/ OneIncrementGeneration

SpecOne == InitOne /\ [][NextOne]_vars

\* ------------------------------------- set_cr3_with_pcid on sampled inputs
\* The PCIDs given to set_cr3_with_pcid, the sentinel included, and the
\* page-aligned page-table addresses.
PcidSamples == {0, 1, 5, 8, 16, 24, 4095, PCID_INVALID}
PtSamples == {0, 4096, 8192}
\* The ASID tag is bits 0-11 of the register, the frame starts at bit 12.
TagBits == 12

RECURSIVE SumPow(_)
SumPow(bits) ==
    IF bits = {} THEN 0
    ELSE LET b == Min(bits) IN (2 ^ b) + SumPow(bits \ {b})
\* Cr3::write(addr, flags) writes addr | flags: the tag and frame it holds.
TagOf(c3) == SumPow(c3.flags \cap (0 .. (TagBits - 1)))
FrameOf(c3) == c3.addr \div (2 ^ TagBits)

InitCr3 == InitCtx

Cr3Load ==
    /\ \E page_table_addr \in PtSamples, pcid \in PcidSamples :
         /\ cr3' = set_cr3_with_pcid(cr3, page_table_addr, pcid)
         /\ installed' = Some(pcid)
         /\ last' = Done("set_cr3_with_pcid", page_table_addr, Some(pcid))
    /\ UNCHANGED <<asidVars, ops, cpu, PROCESS_CTX_ID_MANAGER, VMSPACE_PCIDS,
                   trace, dirty, held, contexts, sysVars, parVars>>

NextCr3 == Cr3Load

SpecCr3 == InitCr3 /\ [][NextCr3]_vars

\* ---------------------------------- the system call on the recorded counts
\* The action numbers, buffer lengths and mapped lengths a caller passes.
\* Each action with a buffer one byte short, exact and generous, on a buffer
\* that is mapped throughout or only in its first 20 bytes; actions outside
\* 0..3 with and without a buffer.
Call(action, buffer_len, writable) ==
    [action |-> action, buffer_len |-> buffer_len, writable |-> writable]
CallSamples ==
    { Call(0, 0, 0),
      Call(0, size_of(AsidStatsUserspace) - 1, 4096),
      Call(0, size_of(AsidStatsUserspace), 4096),
      Call(0, 4096, 20),
      Call(1, 0, 0),
      Call(2, 0, 0),
      Call(3, size_of(AsidEfficiencyUserspace) - 1, 4096),
      Call(3, size_of(AsidEfficiencyUserspace), 4096),
      Call(3, size_of(AsidStatsUserspace), 20),
      Call(4, 4096, 4096),
      Call(7, 0, 0) }

InitSys ==
    /\ ASID_CAP = Min(CapConfigs)
    /\ ASID_MANAGER = AsidManager_new
    /\ ASID_STATS = AsidStats_new
    /\ last = Done("init", 0, None)
    /\ live = << >>
    /\ allocRun = 0
    /\ ops = 0
    /\ PcidInit(TRUE, TRUE, TRUE)
    /\ SysInit
    /\ ParInit

SysFrame ==
    /\ ops < MaxSysOps
    /\ ops' = ops + 1
    /\ UNCHANGED <<ASID_CAP, ASID_MANAGER, live, allocRun, pcidVars, parVars>>

SysRecordAllocation ==
    /\ \E t \in CycleSamples :
         ASID_STATS' = record_allocation(ASID_STATS, ASID_MIN, t, 0)
    /\ last' = Done("record_allocation", ASID_MIN, None)
    /\ UNCHANGED sys
    /\ SysFrame

SysRecordAllocationFailure ==
    /\ ASID_STATS' = record_allocation_failure(ASID_STATS)
    /\ last' = Done("record_allocation_failure", 0, None)
    /\ UNCHANGED sys
    /\ SysFrame

SysRecordAsidReuse ==
    /\ ASID_STATS' = record_asid_reuse(ASID_STATS, ASID_MIN)
    /\ last' = Done("record_asid_reuse", ASID_MIN, None)
    /\ UNCHANGED sys
    /\ SysFrame

SysRecordContextSwitch ==
    /\ \E needed_flush \in BOOLEAN, t \in CycleSamples :
         ASID_STATS' =
             record_context_switch(ASID_STATS, ASID_MIN, needed_flush, t, 0)
    /\ last' = Done("record_context_switch", ASID_MIN, None)
    /\ UNCHANGED sys
    /\ SysFrame

SysAsidProfiling ==
    /\ \E c \in CallSamples :
         LET r == sys_asid_profiling(ASID_STATS, c.action, c.buffer_len,
                                     c.writable)
         IN  /\ ASID_STATS' = r.st
             /\ sys' = r.sys
             /\ last' = Done("asid_profiling", c.action, None)
    /\ SysFrame

NextSys ==
    \/ SysRecordAllocation
    \/ SysRecordAllocationFailure
    \/ SysRecordAsidReuse
    \/ SysRecordContextSwitch
    \/ SysAsidProfiling

SpecSys == InitSys /\ [][NextSys]_vars

\* ------------------------------------ the allocator near the 16-bit wrap
\* The generations the allocator starts from: g calls of
\* increment_generation() followed by reset() leave the manager empty in
\* generation g and every counter but current_generation at 0.
GenerationSamples == {0, U16Mod - 2, U16Mod - 1}

InitGen ==
    /\ ASID_CAP = Min(CapConfigs)
    /\ \E g \in GenerationSamples :
         /\ ASID_MANAGER = [AsidManager_new EXCEPT !.current_generation = g]
         /\ ASID_STATS = [AsidStats_new EXCEPT !.current_generation = g]
    /\ last = Done("init", 0, 0)
    /\ live = << >>
    /\ allocRun = 0
    /\ ops = 0
    /\ PcidInit(TRUE, TRUE, TRUE)
    /\ SysInit
    /\ ParInit

NextGen ==
    \/ Allocate
    \/ Deallocate
    \/ IncrementGeneration
    \/ Reset

SpecGen == InitGen /\ [][NextGen]_vars

\* ------------------------------------------ the recording calls, per ASID
\* The ASIDs and flush kinds the callers record.
RecAsids == {ASID_MIN, ASID_MIN + 1}
TlbOpSamples == {"SingleContext", "FullFlush"}

InitRec == InitSys

RecFrame ==
    /\ ops < MaxRecOps
    /\ ops' = ops + 1
    /\ UNCHANGED <<ASID_CAP, ASID_MANAGER, live, allocRun, pcidVars, sysVars, parVars>>

RecAllocation ==
    /\ \E asid \in RecAsids, t \in CycleSamples :
         /\ ASID_STATS' = record_allocation(ASID_STATS, asid, t, t)
         /\ last' = Done("record_allocation", asid, None)
    /\ RecFrame

RecContextSwitch ==
    /\ \E asid \in RecAsids, needed_flush \in BOOLEAN, t \in CycleSamples :
         /\ ASID_STATS' =
                record_context_switch(ASID_STATS, asid, needed_flush, t, t)
         /\ last' = Done("record_context_switch", asid, None)
    /\ RecFrame

RecTlbOperation ==
    /\ \E op_type \in TlbOpSamples, t \in CycleSamples,
          asid \in {None} \cup {Some(a) : a \in RecAsids} :
         /\ ASID_STATS' = record_tlb_operation(ASID_STATS, op_type, asid, t)
         /\ last' = Done("record_tlb_operation", 0, asid)
    /\ RecFrame

RecReset ==
    /\ ASID_STATS' = reset(ASID_STATS)
    /\ last' = Done("reset", 0, None)
    /\ RecFrame

NextRec ==
    \/ RecAllocation
    \/ RecContextSwitch
    \/ RecTlbOperation
    \/ RecReset

SpecRec == InitRec /\ [][NextRec]_vars

\* ----------------------------- the context-ID manager, concurrent callers
\* Each call is cut where it takes or drops a lock. id_allocator is held by
\* allocate and release from the pool update to the end of the call, and by
\* is_allocated for one read only; the pcid_states lock is taken for one
\* store (or one count) at a time, so each such section is a single step.
InitPar == InitCtx

Goto(t, p) == pc' = [pc EXCEPT ![t] = p]
Lock(name, t) == locks' = [locks EXCEPT ![name] = t]
Unlock(name) == locks' = [locks EXCEPT ![name] = 0]

ParFrame ==
    UNCHANGED <<asidVars, cpu, cr3, VMSPACE_PCIDS, contexts, installed,
                dirty, held, sysVars>>

\* A caller starts a call.
ParCall(t) ==
    /\ pc[t] = Idle
    /\ ops < MaxParOps
    /\ ops' = ops + 1

\* A caller is inside op at the given step.
ParAt(t, op, step) ==
    /\ pc[t].op = op
    /\ pc[t].step = step
    /\ ops' = ops

\* allocate(): the pool under its lock; None returns at once.
ParAllocateAlloc(t) ==
    /\ ParCall(t)
    /\ locks.id_allocator = 0
    /\ \E alloc \in IdAlloc_alloc(PROCESS_CTX_ID_MANAGER.id_allocator,
                                  PROCESS_CTX_ID_MANAGER.max_process_contexts) :
         IF ~alloc.some
         THEN /\ last' = Done("ctx_allocate", 0, None)
              /\ UNCHANGED <<PROCESS_CTX_ID_MANAGER, pc, locks>>
         ELSE /\ PROCESS_CTX_ID_MANAGER' =
                     [PROCESS_CTX_ID_MANAGER EXCEPT
                          !.id_allocator = @ \cup {alloc.val}]
              /\ Goto(t, At("allocate", alloc.val, 2, FALSE))
              /\ Lock("id_allocator", t)
              /\ UNCHANGED last
    /\ trace' = << >>
    /\ ParFrame

\* allocate(): the slot marked Allocated, both guards dropped.
ParAllocateStore(t) ==
    /\ ParAt(t, "allocate", 2)
    /\ PROCESS_CTX_ID_MANAGER' =
           [PROCESS_CTX_ID_MANAGER EXCEPT
                !.pcid_states[pc[t].id] = "Allocated"]
    /\ last' = Done("ctx_allocate", 0, Some(pc[t].id))
    /\ Goto(t, Idle)
    /\ Unlock("id_allocator")
    /\ trace' = << >>
    /\ ParFrame

\* release(id): the bit freed under the pool's lock.
ParReleaseFree(t) ==
    /\ ParCall(t)
    /\ \E id \in CtxArgs :
         IF id >= PROCESS_CTX_ID_MANAGER.max_process_contexts
         THEN /\ last' = Done("ctx_release", id, None)
              /\ UNCHANGED <<PROCESS_CTX_ID_MANAGER, pc, locks>>
         ELSE /\ locks.id_allocator = 0
              /\ PROCESS_CTX_ID_MANAGER' =
                     [PROCESS_CTX_ID_MANAGER EXCEPT
                          !.id_allocator = IdAlloc_free(@, id)]
              /\ Goto(t, At("release", id, 2, FALSE))
              /\ Lock("id_allocator", t)
              /\ UNCHANGED last
    /\ trace' = << >>
    /\ ParFrame

\* release(id): the slot marked Free, both guards dropped.
ParReleaseStore(t) ==
    /\ ParAt(t, "release", 2)
    /\ PROCESS_CTX_ID_MANAGER' =
           [PROCESS_CTX_ID_MANAGER EXCEPT !.pcid_states[pc[t].id] = "Free"]
    /\ last' = Done("ctx_release", pc[t].id, None)
    /\ Goto(t, Idle)
    /\ Unlock("id_allocator")
    /\ trace' = << >>
    /\ ParFrame

\* activate(id) and deactivate(id): the is_allocated test, which takes the
\* pool's lock for the one read when id is below capacity.
ParCheck(t, op) ==
    /\ ParCall(t)
    /\ \E id \in CtxArgs :
         /\ id < PROCESS_CTX_ID_MANAGER.max_process_contexts
                => locks.id_allocator = 0
         /\ IF ~ProcessCtxIdManager_is_allocated(PROCESS_CTX_ID_MANAGER, id)
                  \/ id >= PROCESS_CTX_ID_MANAGER.max_process_contexts
            THEN /\ last' = Done("ctx_" \o op, id, None)
                 /\ UNCHANGED pc
            ELSE /\ Goto(t, At(op, id, 2, FALSE))
                 /\ UNCHANGED last
    /\ trace' = << >>
    /\ UNCHANGED <<PROCESS_CTX_ID_MANAGER, locks>>
    /\ ParFrame

ParActivateCheck(t) == ParCheck(t, "activate")
ParDeactivateCheck(t) == ParCheck(t, "deactivate")

\* activate(id): the slot marked Active under the pcid_states lock.
ParActivateStore(t) ==
    /\ ParAt(t, "activate", 2)
    /\ PROCESS_CTX_ID_MANAGER' =
           [PROCESS_CTX_ID_MANAGER EXCEPT !.pcid_states[pc[t].id] = "Active"]
    /\ last' = Done("ctx_activate", pc[t].id, Some(0))
    /\ Goto(t, Idle)
    /\ trace' = << >>
    /\ UNCHANGED locks
    /\ ParFrame

\* deactivate(id): the slot marked Allocated and the PCID invalidated, under
\* the pcid_states lock.
ParDeactivateStore(t) ==
    /\ ParAt(t, "deactivate", 2)
    /\ PROCESS_CTX_ID_MANAGER' =
           [PROCESS_CTX_ID_MANAGER EXCEPT
                !.pcid_states[pc[t].id] = "Allocated"]
    /\ trace' = IF PROCESS_CTX_ID_MANAGER.hw_pcid_supported
                THEN invalidate_pcid(pc[t].id) ELSE << >>
    /\ last' = Done("ctx_deactivate", pc[t].id, Some(0))
    /\ Goto(t, Idle)
    /\ UNCHANGED locks
    /\ ParFrame

\* active_count(): one count under the pcid_states lock.
ParActiveCount(t) ==
    /\ ParCall(t)
    /\ last' = Done("ctx_active_count", 0,
               Some(ProcessCtxIdManager_active_count(PROCESS_CTX_ID_MANAGER)))
    /\ trace' = << >>
    /\ UNCHANGED <<PROCESS_CTX_ID_MANAGER, pc, locks>>
    /\ ParFrame

NextPar ==
    \E t \in Callers :
        \/ ParAllocateAlloc(t)
        \/ ParAllocateStore(t)
        \/ ParReleaseFree(t)
        \/ ParReleaseStore(t)
        \/ ParActivateCheck(t)
        \/ ParActivateStore(t)
        \/ ParDeactivateCheck(t)
        \/ ParDeactivateStore(t)
        \/ ParActiveCount(t)

SpecPar == InitPar /\ [][NextPar]_vars

\* ------------------------ the allocator and its counters, concurrent callers
\* Each call is cut at every access to shared state: one atomic operation on
\* a counter, or one critical section of the per-ASID table's lock. The
\* manager's own fields are read and written under the ASID_MANAGER lock
\* only, so a search or a rollover of them goes with the step that precedes
\* the next counter access.
InitRace == InitSys

\* The stores of reset(), in program order; the table is cleared after them.
reset_fields ==
    << "allocations_total", "deallocations_total", "allocation_failures",
       "generation_rollovers", "asid_reuse_count", "bitmap_searches",
       "map_searches", "tlb_single_address_flushes",
       "tlb_single_context_flushes", "tlb_all_context_flushes",
       "tlb_full_flushes", "context_switches", "context_switches_with_flush",
       "vmspace_activations", "allocation_time_total",
       "deallocation_time_total", "tlb_flush_time_total",
       "context_switch_time_total" >>
ResetSteps == Len(reset_fields) + 1

\* reset() that also stores 0 to current_generation, with its first store.
reset_step_ClearsGeneration(st, i) ==
    IF i = 1
    THEN [st EXCEPT ![reset_fields[i]] = 0, !.current_generation = 0]
    ELSE IF i <= Len(reset_fields)
    THEN [st EXCEPT ![reset_fields[i]] = 0]
    ELSE [st EXCEPT !.per_asid_stats = << >>]

\* The i-th step of reset().
reset_step(st, i) ==
    IF i <= Len(reset_fields)
    THEN [st EXCEPT ![reset_fields[i]] = 0]
    ELSE [st EXCEPT !.per_asid_stats = << >>]

RaceFrame ==
    UNCHANGED <<ASID_CAP, live, allocRun, pcidVars, sysVars>>

RaceCall(t) ==
    /\ pc[t] = Idle
    /\ ops < MaxRaceOps
    /\ ops' = ops + 1

RaceAt(t, opset, step) ==
    /\ pc[t].op \in opset
    /\ pc[t].step = step
    /\ ops' = ops

\* pub fn increment_generation(): the lock taken, the manager rolled over.
RaceIncrementLock(t) ==
    /\ RaceCall(t)
    /\ locks.asid_manager = 0
    /\ Lock("asid_manager", t)
    /\ ASID_MANAGER' =
           AsidManager_increment_generation(ASID_MANAGER, ASID_STATS).m
    /\ Goto(t, At("increment_generation", 0, 2, FALSE))
    /\ UNCHANGED <<ASID_STATS, last>>
    /\ RaceFrame

\* pub fn allocate(): the lock taken and the first search (which counts
\* itself in bitmap_searches); on a miss the manager is rolled over.
RaceAllocateSearch(t) ==
    /\ RaceCall(t)
    /\ locks.asid_manager = 0
    /\ Lock("asid_manager", t)
    /\ LET r == find_and_set_free_bit(ASID_MANAGER, ASID_STATS)
       IN  /\ ASID_STATS' = r.st
           /\ IF r.res.some
              THEN /\ ASID_MANAGER' = r.m
                   /\ Goto(t, At("allocate", r.res.val, 5, FALSE))
              ELSE /\ ASID_MANAGER' =
                          AsidManager_increment_generation(r.m, r.st).m
                   /\ Goto(t, At("allocate", 0, 2, FALSE))
    /\ UNCHANGED last
    /\ RaceFrame

\* record_generation_rollover: generation_rollovers.fetch_add(1).
RaceRolloverCount(t) ==
    /\ RaceAt(t, {"increment_generation", "allocate"}, 2)
    /\ ASID_STATS' = [ASID_STATS EXCEPT !.generation_rollovers = @ + 1]
    /\ Goto(t, [pc[t] EXCEPT !.step = 3])
    /\ UNCHANGED <<ASID_MANAGER, locks, last>>
    /\ RaceFrame

\* record_generation_rollover: current_generation.store(new_generation).
RaceRolloverStore(t) ==
    /\ RaceAt(t, {"increment_generation", "allocate"}, 3)
    /\ ASID_STATS' = [ASID_STATS EXCEPT !.current_generation =
                                            ASID_MANAGER.current_generation]
    /\ Goto(t, [pc[t] EXCEPT
                   !.step = IF pc[t].op = "allocate" THEN 4 ELSE 5])
    /\ UNCHANGED <<ASID_MANAGER, locks, last>>
    /\ RaceFrame

\* allocate(): the search after the rollover.
RaceAllocateRetry(t) ==
    /\ RaceAt(t, {"allocate"}, 4)
    /\ LET r == find_and_set_free_bit(ASID_MANAGER, ASID_STATS)
       IN  /\ ASID_STATS' = r.st
           /\ ASID_MANAGER' = r.m
           /\ Goto(t, At("allocate",
                         IF r.res.some THEN r.res.val ELSE ASID_FLUSH_REQUIRED,
                         5, FALSE))
    /\ UNCHANGED <<locks, last>>
    /\ RaceFrame

\* The guard dropped: increment_generation() returns, allocate() goes on to
\* its counters.
RaceUnlock(t) ==
    /\ RaceAt(t, {"increment_generation", "allocate"}, 5)
    /\ Unlock("asid_manager")
    /\ IF pc[t].op = "allocate"
       THEN /\ Goto(t, [pc[t] EXCEPT !.step = 6])
            /\ UNCHANGED last
       ELSE /\ Goto(t, Idle)
            /\ last' = Done("increment_generation", 0, None)
    /\ UNCHANGED <<ASID_MANAGER, ASID_STATS>>
    /\ RaceFrame

\* allocate(): record_allocation_failure, or record_allocation.
RaceAllocateRecord(t) ==
    /\ RaceAt(t, {"allocate"}, 6)
    /\ \E time_cycles \in CycleSamples :
         ASID_STATS' =
             IF pc[t].id = ASID_FLUSH_REQUIRED
             THEN record_allocation_failure(ASID_STATS)
             ELSE record_allocation(ASID_STATS, pc[t].id, time_cycles, 0)
    /\ Goto(t, Idle)
    /\ last' = Done("allocate", 0, Some(pc[t].id))
    /\ UNCHANGED <<ASID_MANAGER, locks>>
    /\ RaceFrame

\* reset(): its first store.
RaceResetBegin(t) ==
    /\ RaceCall(t)
    /\ ASID_STATS' = reset_step(ASID_STATS, 1)
    /\ Goto(t, At("reset", 0, 2, FALSE))
    /\ UNCHANGED <<ASID_MANAGER, locks, last>>
    /\ RaceFrame

\* reset(): its next store, the table cleared last.
RaceResetStep(t) ==
    /\ pc[t].op = "reset"
    /\ ops' = ops
    /\ ASID_STATS' = reset_step(ASID_STATS, pc[t].step)
    /\ IF pc[t].step = ResetSteps
       THEN /\ Goto(t, Idle)
            /\ last' = Done("reset", 0, None)
       ELSE /\ Goto(t, [pc[t] EXCEPT !.step = @ + 1])
            /\ UNCHANGED last
    /\ UNCHANGED <<ASID_MANAGER, locks>>
    /\ RaceFrame

\* record_context_switch(asid, needed_flush, time_cycles):
\* context_switches.fetch_add(1).
RaceSwitchCount(t) ==
    /\ RaceCall(t)
    /\ \E needed_flush \in BOOLEAN :
         Goto(t, At("record_context_switch", ASID_MIN, 2, needed_flush))
    /\ ASID_STATS' = [ASID_STATS EXCEPT !.context_switches = @ + 1]
    /\ UNCHANGED <<ASID_MANAGER, locks, last>>
    /\ RaceFrame

\* context_switch_time_total.fetch_add(time_cycles).
RaceSwitchTime(t) ==
    /\ RaceAt(t, {"record_context_switch"}, 2)
    /\ \E time_cycles \in CycleSamples :
         ASID_STATS' =
             [ASID_STATS EXCEPT !.context_switch_time_total = @ + time_cycles]
    /\ Goto(t, [pc[t] EXCEPT !.step = IF pc[t].flag THEN 3 ELSE 4])
    /\ UNCHANGED <<ASID_MANAGER, locks, last>>
    /\ RaceFrame

\* if needed_flush: context_switches_with_flush.fetch_add(1).
RaceSwitchFlush(t) ==
    /\ RaceAt(t, {"record_context_switch"}, 3)
    /\ ASID_STATS' = [ASID_STATS EXCEPT !.context_switches_with_flush = @ + 1]
    /\ Goto(t, [pc[t] EXCEPT !.step = 4])
    /\ UNCHANGED <<ASID_MANAGER, locks, last>>
    /\ RaceFrame

\* The per-ASID record, under the table's lock.
RaceSwitchTable(t) ==
    /\ RaceAt(t, {"record_context_switch"}, 4)
    /\ ASID_STATS' =
           [ASID_STATS EXCEPT !.per_asid_stats =
               record_context_switch(ASID_STATS, pc[t].id, pc[t].flag,
                                     0, 0).per_asid_stats]
    /\ Goto(t, Idle)
    /\ last' = Done("record_context_switch", pc[t].id, Bool(pc[t].flag))
    /\ UNCHANGED <<ASID_MANAGER, locks>>
    /\ RaceFrame

NextRace ==
    \E t \in Callers :
        \/ RaceIncrementLock(t)
        \/ RaceAllocateSearch(t)
        \/ RaceRolloverCount(t)
        \/ RaceRolloverStore(t)
        \/ RaceAllocateRetry(t)
        \/ RaceUnlock(t)
        \/ RaceAllocateRecord(t)
        \/ RaceResetBegin(t)
        \/ RaceResetStep(t)
        \/ RaceSwitchCount(t)
        \/ RaceSwitchTime(t)
        \/ RaceSwitchFlush(t)
        \/ RaceSwitchTable(t)

SpecRace == InitRace /\ [][NextRace]_vars

\* ------------------------------------------------- claims C11 .. C20
Mgr == PROCESS_CTX_ID_MANAGER
CtxIds == 0 .. (MaxContexts - 1)
BitSet(M, id) == id \in M.id_allocator

\* C11: under any sequential sequence of manager operations, a slot that is
\* Allocated or Active has its allocator bit set, and a slot whose bit is
\* clear is Free.
C11_StateTableMirrorsBitmap ==
    \A id \in CtxIds :
        /\ Mgr.pcid_states[id] \in {"Allocated", "Active"} => BitSet(Mgr, id)
        /\ ~BitSet(Mgr, id) => Mgr.pcid_states[id] = "Free"

\* A release has just freed an activated ID while one slot is Active and
\* another Allocated.
C11_Witness ==
    /\ last.op = "ctx_release"
    /\ last.arg \in dirty
    /\ \E id \in CtxIds : Mgr.pcid_states[id] = "Active"
    /\ \E id \in CtxIds : Mgr.pcid_states[id] = "Allocated"

\* What a following allocate() may return.
AllocateResults(M) ==
    {ProcessCtxIdManager_allocate(M, a).res :
        a \in IdAlloc_alloc(M.id_allocator, M.max_process_contexts)}
FreeCtxIds(M) == {id \in CtxIds : ~ProcessCtxIdManager_is_allocated(M, id)}

\* C13: allocate() returns None exactly when all capacity IDs are allocated,
\* and then changes no state; otherwise it returns a free ID below capacity.
\* After release(id) a following allocate() can return id, and returns
\* exactly id when id is the only free one.
C13_AllocateStep ==
    /\ last'.op = "ctx_allocate" =>
          /\ (last'.res = None) <=> (FreeCtxIds(Mgr) = {})
          /\ last'.res = None => Mgr' = Mgr
          /\ last'.res.some =>
                /\ last'.res.val \in FreeCtxIds(Mgr)
                /\ last'.res.val < ProcessCtxIdManager_capacity(Mgr)
                /\ ProcessCtxIdManager_is_allocated(Mgr', last'.res.val)
    /\ (last'.op = "ctx_release" /\ last'.arg \in CtxIds) =>
          /\ Some(last'.arg) \in AllocateResults(Mgr')
          /\ FreeCtxIds(Mgr') = {last'.arg} =>
                AllocateResults(Mgr') = {Some(last'.arg)}
C13_AllocateNoneIffFull == [][C13_AllocateStep]_vars

\* allocate() has just failed on a full pool.
C13_Witness ==
    /\ last.op = "ctx_allocate"
    /\ last.res = None
    /\ FreeCtxIds(Mgr) = {}

\* C14: allocate_specific(id) returns Some(id) and marks the slot Allocated
\* exactly when id < capacity and id is free; otherwise it returns None and
\* leaves the bitmap and the slot states, an Active one included, unchanged.
C14_AllocateSpecificStep ==
    last'.op = "ctx_allocate_specific" =>
        IF last'.arg < ProcessCtxIdManager_capacity(Mgr)
               /\ ~BitSet(Mgr, last'.arg)
        THEN /\ last'.res = Some(last'.arg)
             /\ Mgr'.pcid_states[last'.arg] = "Allocated"
             /\ BitSet(Mgr', last'.arg)
        ELSE /\ last'.res = None
             /\ Mgr'.id_allocator = Mgr.id_allocator
             /\ Mgr'.pcid_states = Mgr.pcid_states
C14_AllocateSpecific == [][C14_AllocateSpecificStep]_vars

\* allocate_specific has just been refused on an Active ID.
C14_Witness ==
    /\ last.op = "ctx_allocate_specific"
    /\ last.res = None
    /\ last.arg \in CtxIds
    /\ Mgr.pcid_states[last.arg] = "Active"

\* C15: for an allocated ID c, is_active(c) is false right after allocation;
\* activate(c) makes it true and is idempotent on an Active c; deactivate(c)
\* makes it false with c still allocated; active_count() is the number of
\* Active IDs.
ActiveIds(M) == {id \in CtxIds : ProcessCtxIdManager_is_active(M, id)}
C15_ActivationStep ==
    /\ (last'.op \in {"ctx_allocate", "ctx_allocate_specific"}
            /\ last'.res.some) =>
          ~ProcessCtxIdManager_is_active(Mgr', last'.res.val)
    /\ (last'.op = "ctx_activate"
            /\ ProcessCtxIdManager_is_allocated(Mgr, last'.arg)) =>
          /\ last'.res.some
          /\ ProcessCtxIdManager_is_active(Mgr', last'.arg)
          /\ ActiveIds(Mgr') = ActiveIds(Mgr) \cup {last'.arg}
          /\ ProcessCtxIdManager_is_active(Mgr, last'.arg) => Mgr' = Mgr
    /\ (last'.op = "ctx_deactivate"
            /\ ProcessCtxIdManager_is_allocated(Mgr, last'.arg)) =>
          /\ ~ProcessCtxIdManager_is_active(Mgr', last'.arg)
          /\ ProcessCtxIdManager_is_allocated(Mgr', last'.arg)
          /\ ActiveIds(Mgr') = ActiveIds(Mgr) \ {last'.arg}
    /\ last'.op = "ctx_is_active" =>
          last'.res = Bool(last'.arg \in ActiveIds(Mgr))
    /\ last'.op = "ctx_active_count" =>
          last'.res = Some(Cardinality(ActiveIds(Mgr)))
    /\ ProcessCtxIdManager_active_count(Mgr') = Cardinality(ActiveIds(Mgr'))
C15_Activation == [][C15_ActivationStep]_vars

\* active_count() has just answered 2 after two activations.
C15_Witness ==
    /\ last.op = "ctx_active_count"
    /\ last.res = Some(2)
    /\ Cardinality(dirty) >= 2

\* C16: deactivate of an Active ID emits exactly one SingleContext INVPCID
\* event for that ID, and tlb_single_context_flushes increases by exactly 1.
SingleContextEvents(tr, id) ==
    {i \in 1 .. Len(tr) : tr[i].typ = "SingleContext" /\ tr[i].pcid = id}
C16_DeactivateStep ==
    (last'.op = "ctx_deactivate" /\ last'.arg \in ActiveIds(Mgr)) =>
        /\ Cardinality(SingleContextEvents(trace', last'.arg)) = 1
        /\ ASID_STATS'.tlb_single_context_flushes =
               ASID_STATS.tlb_single_context_flushes + 1
C16_DeactivateRecordsFlush == [][C16_DeactivateStep]_vars

\* C17: release(id) of an Active slot deactivates first: no slot goes from
\* Active to Free without a SingleContext invalidation for its ID.
C17_ReleaseStep ==
    \A id \in CtxIds :
        (Mgr.pcid_states[id] = "Active" /\ Mgr'.pcid_states[id] = "Free") =>
            SingleContextEvents(trace', id) # {}
C17_ReleaseDeactivatesFirst == [][C17_ReleaseStep]_vars

\* The bindings of all threads, and the IDs bound to one address space.
Bindings(maps) == {b \in Threads \X VmSpaces : b[2] \in DOMAIN maps[b[1]]}
IdsOf(maps, v) ==
    {maps[t][v] : t \in {x \in Threads : v \in DOMAIN maps[x]}}

\* C12: no two live context IDs are equal: an ID returned by allocate() or
\* allocate_specific() is not returned again by either until it is released,
\* so no two address spaces with live bindings share a non-sentinel PCID.
C12_Step ==
    /\ \A id \in Allocs(trace') : id \notin held
    /\ \A b1, b2 \in Bindings(VMSPACE_PCIDS') :
          b1[2] # b2[2] =>
              VMSPACE_PCIDS'[b1[1]][b1[2]] # VMSPACE_PCIDS'[b2[1]][b2[2]]
    /\ \A b \in Bindings(VMSPACE_PCIDS') :
          /\ VMSPACE_PCIDS'[b[1]][b[2]] # PCID_INVALID
          /\ VMSPACE_PCIDS'[b[1]][b[2]] \notin contexts'
C12_LiveIdsUnique == [][C12_Step]_vars

\* allocate_pcid has just allocated an ID while another address space and a
\* ProcessContext hold theirs.
C12_Witness ==
    /\ last.op = "allocate_pcid"
    /\ Allocs(trace) # {}
    /\ contexts # {}
    /\ \E v \in VmSpaces : v # last.arg /\ IdsOf(VMSPACE_PCIDS, v) # {}

\* C18: after release_pcid(V), every ID allocated for V is Free in the manager
\* and get_pcid(V) is None, whichever thread bound and whichever releases.
C18_Step ==
    last'.op = "release_pcid" =>
        /\ \A id \in IdsOf(VMSPACE_PCIDS, last'.arg) :
              /\ ~ProcessCtxIdManager_is_allocated(Mgr', id)
              /\ Mgr'.pcid_states[id] = "Free"
        /\ \A t \in Threads : ~get_pcid(VMSPACE_PCIDS'[t], last'.arg).some
C18_ReleaseLeavesNoBinding == [][C18_Step]_vars

\* C19: release_pcid(V) on a V bound to a non-sentinel ID first deactivates
\* the ID (issuing the SingleContext invalidation when hardware PCID is
\* supported) and only then releases it; no ID is free in the pool before
\* its invalidation has been issued.
Ordered(tr, id) ==
    \E i, j \in 1 .. Len(tr) :
        /\ i < j
        /\ tr[i] = PoolEv("deactivate", id)
        /\ tr[j] = PoolEv("free", id)
        /\ \A k \in 1 .. Len(tr) : tr[k] = PoolEv("free", id) => k = j
        /\ Mgr.hw_pcid_supported =>
              \E k \in SingleContextEvents(tr, id) : i < k /\ k < j
C19_Step ==
    /\ last'.op = "release_pcid" =>
          /\ \A t \in Threads :
                VMSPACE_PCIDS'[t] # VMSPACE_PCIDS[t] =>
                    Frees(trace') = {VMSPACE_PCIDS[t][last'.arg]}
          /\ \A id \in Frees(trace') :
                /\ Ordered(trace', id)
                /\ ~ProcessCtxIdManager_is_allocated(Mgr', id)
    /\ \A id \in dirty' : ProcessCtxIdManager_is_allocated(Mgr', id)
C19_UnbindOrdered == [][C19_Step]_vars

\* release_pcid has just unbound an activated address space.
C19_Witness ==
    /\ last.op = "release_pcid"
    /\ Frees(trace) # {}
    /\ Invalidated(trace) = Frees(trace)
    /\ Bindings(VMSPACE_PCIDS) # {}

\* C20: allocate_pcid on a V that already has a binding returns the same ID,
\* allocates nothing and leaves the manager unchanged; a V has at most one
\* bound ID at any time.
C20_Step ==
    /\ (last'.op = "allocate_pcid"
            /\ IdsOf(VMSPACE_PCIDS, last'.arg) # {}) =>
          /\ last'.res.some
          /\ last'.res.val \in IdsOf(VMSPACE_PCIDS, last'.arg)
          /\ Allocs(trace') = {}
          /\ Mgr' = Mgr
    /\ \A v \in VmSpaces : Cardinality(IdsOf(VMSPACE_PCIDS', v)) <= 1
C20_BindIdempotent == [][C20_Step]_vars

\* ------------------------------------------------- claims C21 .. C30
\* C22: when the page table loaded is the one already installed but the ASID
\* differs, the binding layer issues an AllContextExceptGlobal (or full)
\* invalidation and does not ask the CPU to preserve TLB entries.
FullInvalidations(tr) ==
    {i \in 1 .. Len(tr) : tr[i].typ \in {"AllContextExceptGlobal", "AllContext"}}
C22_Step ==
    (/\ last'.op = "activate_with_pcid"
     /\ cpu.pcide
     /\ cr3.addr = PtPaddr(last'.arg)
     /\ installed.some
     /\ installed.val # last'.res.val) =>
        /\ FullInvalidations(trace') # {}
        /\ cr3'.flags \cap (PAGE_LEVEL_CACHE_DISABLE \cup {63}) = {}
C22_SamePageTableNewAsidFlushes == [][C22_Step]_vars

\* C25: without hardware PCID, bind(V) yields the sentinel for every V,
\* allocates no ID from the pool and marks no slot Allocated or Active.
C25_Step ==
    (~is_pcid_supported
         /\ last'.op \in {"allocate_pcid", "activate_with_pcid"}) =>
        /\ last'.res = Some(PCID_INVALID)
        /\ Allocs(trace') = {}
        /\ Mgr' = Mgr
        /\ VMSPACE_PCIDS' = VMSPACE_PCIDS
        /\ dirty' = dirty
C25_NoHwPcidYieldsSentinel == [][C25_Step]_vars

\* A bind on a CPU without PCID has just answered the sentinel.
C25_Witness ==
    /\ ~is_pcid_supported
    /\ last.op = "allocate_pcid"
    /\ last.res = Some(PCID_INVALID)
    /\ Bindings(VMSPACE_PCIDS) = {}

\* C26: when is_pcid_supported() is false, every activate(V) performs a full
\* page-table reload and tlb_full_flushes increases by one.
C26_Step ==
    (~is_pcid_supported /\ last'.op = "activate_with_pcid") =>
        /\ cr3' = VmSpace_activate(cr3, PtPaddr(last'.arg))
        /\ ASID_STATS'.tlb_full_flushes = ASID_STATS.tlb_full_flushes + 1
C26_NoHwPcidCountsFullFlush == [][C26_Step]_vars

\* C21: a binding of an earlier generation is refreshed on activation: the
\* stale ID is given back, V is bound to a fresh ID, a flush is performed
\* and context_switches_with_flush is incremented.
C21_Step ==
    (/\ last.op = "increment_generation"
     /\ last'.op = "activate_with_pcid"
     /\ get_pcid(VMSPACE_PCIDS[Thread1], last'.arg).some) =>
        /\ VMSPACE_PCIDS[Thread1][last'.arg] \in Frees(trace')
        /\ Allocs(trace') # {}
        /\ ASID_STATS'.context_switches_with_flush =
               ASID_STATS.context_switches_with_flush + 1
C21_StaleBindingRefreshed == [][C21_Step]_vars

\* C27: when every context ID is allocated, activate_with_pcid(V) on an
\* unbound V completes with the sentinel as its tag, stores no binding and
\* marks no slot Active.
C27_Step ==
    (/\ is_pcid_supported
     /\ FreeCtxIds(Mgr) = {}
     /\ last'.op = "activate_with_pcid"
     /\ ~get_pcid(VMSPACE_PCIDS[Thread1], last'.arg).some) =>
        /\ last'.res = Some(PCID_INVALID)
        /\ installed' = Some(PCID_INVALID)
        /\ cr3'.addr = PtPaddr(last'.arg)
        /\ VMSPACE_PCIDS' = VMSPACE_PCIDS
        /\ Mgr' = Mgr
        /\ dirty' = dirty
C27_ExhaustionFallsBackToSentinel == [][C27_Step]_vars

\* activate_with_pcid has just run on an unbound address space with the
\* pool exhausted.
C27_Witness ==
    /\ is_pcid_supported
    /\ FreeCtxIds(Mgr) = {}
    /\ last.op = "activate_with_pcid"
    /\ last.res = Some(PCID_INVALID)
    /\ ~get_pcid(VMSPACE_PCIDS[Thread1], last.arg).some

\* C23: for every pcid < 4096 and page-aligned pt_paddr, the value
\* set_cr3_with_pcid writes has bits 0-11 equal to pcid and the frame bits
\* equal to pt_paddr's frame; for PCID_INVALID the tag bits are 0.
C23_Step ==
    last'.op = "set_cr3_with_pcid" =>
        /\ FrameOf(cr3') = last'.arg \div (2 ^ TagBits)
        /\ TagOf(cr3') = IF last'.res.val = PCID_INVALID THEN 0
                         ELSE last'.res.val
C23_TagAndFrameWritten == [][C23_Step]_vars

\* C24: the no-flush hint is bit 63 of the value written: set, with no other
\* extra bit, whenever set_cr3_with_pcid intends no-flush, clear otherwise;
\* the hint never alters bits 0-11.
NoflushIntended(c3, page_table_addr) ==
    cpu.pcide /\ c3.addr = page_table_addr
PcidFlagsOf(pcid) ==
    IF pcid = PCID_INVALID THEN {}
    ELSE Cr3Flags_from_bits_truncate(pcid % PCID_CAP)
C24_Step ==
    last'.op = "set_cr3_with_pcid" =>
        /\ (63 \in cr3'.flags) <=> NoflushIntended(cr3, last'.arg)
        /\ cr3'.flags \ {63} = PcidFlagsOf(last'.res.val)
C24_NoflushIsBit63 == [][C24_Step]_vars

\* C28: asid_profiling fails with EINVAL for every action outside
\* {0, 1, 2, 3}, and for actions 0 and 3 when buffer_len is below the
\* structure's size; then nothing is written to the user buffer and no
\* counter changes.
RejectedCall(c) ==
    \/ c.action \notin {0, 1, 2, 3}
    \/ c.action = 0 /\ c.buffer_len < size_of(AsidStatsUserspace)
    \/ c.action = 3 /\ c.buffer_len < size_of(AsidEfficiencyUserspace)
C28_Step ==
    (last'.op = "asid_profiling" /\ RejectedCall(sys')) =>
        /\ sys'.ret = Err("EINVAL")
        /\ sys'.writes = << >>
        /\ ASID_STATS' = ASID_STATS
C28_BadCallRejected == [][C28_Step]_vars
\* A short buffer was rejected on action 0 while counters were non-zero.
C28_Witness ==
    /\ last.op = "asid_profiling"
    /\ sys.action = 0
    /\ sys.buffer_len = size_of(AsidStatsUserspace) - 1
    /\ sys.ret = Err("EINVAL")
    /\ ASID_STATS.allocations_total > 0

\* C29: a successful action 0 writes AsidStatsUserspace in its C layout and
\* returns its byte size: the bytes written equal the value returned, and
\* every field is at its C-layout offset.
RECURSIVE BytesWritten(_)
BytesWritten(w) ==
    IF w = << >> THEN 0 ELSE Head(w).len + BytesWritten(Tail(w))
C29_Step ==
    (last'.op = "asid_profiling" /\ sys'.action = 0 /\ sys'.ret.ok) =>
        /\ BytesWritten(sys'.writes) = sys'.ret.val
        /\ Len(sys'.writes) = Len(AsidStatsUserspace)
        /\ \A i \in DOMAIN sys'.writes :
              /\ sys'.writes[i].field = AsidStatsUserspace[i].name
              /\ sys'.writes[i].off = COffset(AsidStatsUserspace, i)
C29_StatsWrittenInCLayout == [][C29_Step]_vars

\* C30: calculate_efficiency is total on every report: a zero denominator
\* yields success rate 1, reuse 0, flush efficiency 1 and averages 0;
\* otherwise flush_efficiency = 1 - with_flush / switches; as exported by
\* action 3 the three rates are parts per million in 0 .. 1000000.
C30_Step ==
    (last'.op = "asid_profiling" /\ sys'.action = 3 /\ sys'.ret.ok) =>
        LET report == get_report(ASID_STATS)
            e == sys'.user_efficiency
        IN  /\ (report.allocations_total + report.allocation_failures = 0)
                   => e.allocation_success_rate = PpmScale
            /\ (report.allocations_total = 0)
                   => /\ e.reuse_efficiency = 0
                      /\ e.avg_cycles_per_allocation = 0
            /\ (report.context_switches = 0)
                   => /\ e.flush_efficiency = PpmScale
                      /\ e.avg_cycles_per_context_switch = 0
            /\ (report.context_switches > 0)
                   => e.flush_efficiency =
                          ((report.context_switches
                                - report.context_switches_with_flush)
                             * PpmScale) \div report.context_switches
            /\ e.allocation_success_rate \in 0 .. PpmScale
            /\ e.reuse_efficiency \in 0 .. PpmScale
            /\ e.flush_efficiency \in 0 .. PpmScale
C30_EfficiencyTotalAndInRange == [][C30_Step]_vars

\* ------------------------------------------------- claims C31 .. C39
\* C31: allocate() rolls the generation over only on saturation: whenever
\* at least one ID in [ASID_MIN, ASID_CAP) is free at the call, allocate()
\* leaves the generation and generation_rollovers unchanged and clears no
\* other ID's bit.
C31_Step ==
    (last'.op = "allocate" /\ FreeIds(ASID_MANAGER) # {}) =>
        /\ ASID_MANAGER'.current_generation = ASID_MANAGER.current_generation
        /\ ASID_STATS'.generation_rollovers = ASID_STATS.generation_rollovers
        /\ BitmapIds(ASID_MANAGER) \subseteq BitmapIds(ASID_MANAGER')
C31_RolloverOnlyOnSaturation == [][C31_Step]_vars

\* C34: deactivate(id) on a slot that is Allocated but not Active returns
\* success, leaves the slot Allocated and issues no invalidation; the
\* SingleContext invalidation belongs to the transition out of Active only.
C34_Step ==
    (/\ last'.op = "ctx_deactivate"
     /\ last'.arg \in CtxIds
     /\ Mgr.pcid_states[last'.arg] = "Allocated") =>
        /\ last'.res.some
        /\ Mgr'.pcid_states[last'.arg] = "Allocated"
        /\ Invalidated(trace') = {}
C34_InvalidateOnlyFromActive == [][C34_Step]_vars

\* C35: activate(id) and deactivate(id) on an ID that is Free or not below
\* capacity return None, leave every slot state and the bitmap unchanged and
\* issue no invalidation; no step takes a slot from Free to Active.
NotAllocatedArg(M, id) ==
    IF id \in CtxIds THEN M.pcid_states[id] = "Free" ELSE TRUE
C35_Step ==
    /\ (last'.op \in {"ctx_activate", "ctx_deactivate"}
            /\ NotAllocatedArg(Mgr, last'.arg)) =>
          /\ last'.res = None
          /\ Mgr' = Mgr
          /\ trace' = << >>
    /\ \A id \in CtxIds :
          Mgr.pcid_states[id] = "Free" => Mgr'.pcid_states[id] # "Active"
C35_FreeNeverActivated == [][C35_Step]_vars
\* activate has just been refused on a Free ID while another slot is Active.
C35_Witness ==
    /\ last.op = "ctx_activate"
    /\ last.res = None
    /\ last.arg \in CtxIds
    /\ Mgr.pcid_states[last.arg] = "Free"
    /\ ActiveIds(Mgr) # {}

\* C36: increment_generation() advances the generation by exactly 1 modulo
\* 2^16 (65535 wraps to 0), clears every bit of the bitmap, resets the cursor
\* to ASID_MIN and increases generation_rollovers by exactly 1, whether
\* called directly or from allocate(); after the rollover inside allocate()
\* the only bit that can be set is the returned ID's.
RolledOver(g, g2) == g2 = (g + 1) % U16Mod /\ g2 \in 0 .. (U16Mod - 1)
C36_Step ==
    /\ last'.op = "increment_generation" =>
          /\ RolledOver(ASID_MANAGER.current_generation,
                        ASID_MANAGER'.current_generation)
          /\ BitmapIds(ASID_MANAGER') = {}
          /\ ASID_MANAGER'.next = ASID_MIN
          /\ ASID_STATS'.generation_rollovers
                 = ASID_STATS.generation_rollovers + 1
    /\ (last'.op = "allocate"
            /\ ASID_MANAGER'.current_generation
                   # ASID_MANAGER.current_generation) =>
          /\ RolledOver(ASID_MANAGER.current_generation,
                        ASID_MANAGER'.current_generation)
          /\ BitmapIds(ASID_MANAGER') \subseteq {last'.res}
          /\ ASID_STATS'.generation_rollovers
                 = ASID_STATS.generation_rollovers + 1
C36_GenerationWraps == [][C36_Step]_vars
\* The generation has just wrapped from 65535 to 0 in a direct call.
C36_Witness ==
    /\ last.op = "increment_generation"
    /\ ASID_MANAGER.current_generation = 0
    /\ ASID_STATS.generation_rollovers >= 1

\* C37: per-ID usage records are created only by allocation: an ASID gains
\* an entry only in a record_allocation for it, reset() empties the table,
\* and record_context_switch and record_tlb_operation for an ASID without an
\* entry create none and change no per-ID record.
PerAsid(st) == st.per_asid_stats
C37_Step ==
    /\ \A a \in (DOMAIN PerAsid(ASID_STATS')) \ (DOMAIN PerAsid(ASID_STATS)) :
          last'.op = "record_allocation" /\ last'.arg = a
    /\ last'.op = "reset" => PerAsid(ASID_STATS') = << >>
    /\ (last'.op = "record_context_switch"
            /\ last'.arg \notin DOMAIN PerAsid(ASID_STATS)) =>
          PerAsid(ASID_STATS') = PerAsid(ASID_STATS)
    /\ (last'.op = "record_tlb_operation"
            /\ (last'.res.some =>
                    last'.res.val \notin DOMAIN PerAsid(ASID_STATS))) =>
          PerAsid(ASID_STATS') = PerAsid(ASID_STATS)
C37_EntriesOnlyFromAllocation == [][C37_Step]_vars
\* A context switch to an ASID without an entry was recorded while another
\* ASID has one.
C37_Witness ==
    /\ last.op = "record_context_switch"
    /\ last.arg \notin DOMAIN PerAsid(ASID_STATS)
    /\ PerAsid(ASID_STATS) # << >>
    /\ ASID_STATS.context_switches > 0

\* C32: under concurrent callers the bitmap and the slot-state table are
\* never observed out of sync: whenever no caller is inside the pool's
\* critical section, no slot is Active or Allocated with its bitmap bit
\* clear, and active_count() never counts a released ID.
C32_NoSkewUnderConcurrency ==
    locks.id_allocator = 0 =>
        /\ \A id \in CtxIds :
              Mgr.pcid_states[id] \in {"Allocated", "Active"}
                  => BitSet(Mgr, id)
        /\ last.op = "ctx_active_count" =>
              last.res.val <= Cardinality(Mgr.id_allocator)

\* C33: when activation uses the sentinel on a CPU with PCID enabled, it
\* forces a full non-global flush (AllContextExceptGlobal) after loading the
\* page table.
C33_Step ==
    (/\ last'.op = "activate_with_pcid"
     /\ last'.res = Some(PCID_INVALID)
     /\ cpu.pcide) =>
        /\ cr3'.addr = PtPaddr(last'.arg)
        /\ \E i \in 1 .. Len(trace') :
              trace'[i].typ = "AllContextExceptGlobal"
C33_SentinelForcesFullFlush == [][C33_Step]_vars

C39_FlushedSwitchesBounded ==
    ASID_STATS.context_switches_with_flush <= ASID_STATS.context_switches

====
